---- MODULE Spec2Model ----
(***************************************************************************)
(* A model of the ray tracer's rendering pipeline: the geometric kernel    *)
(* (geometry.rs), the intersection engine (intersection.rs, shape.rs), the *)
(* world's recursive colour composition (world.rs) and the camera's render *)
(* loop (camera.rs, canvas.rs).                                            *)
(*                                                                         *)
(* Numbers.  The program computes in f32.  The model computes in exact     *)
(* integers and rationals: a distance t is a fixed-point integer counting  *)
(* units of 1/Scale, a matrix is an integer matrix over a common           *)
(* denominator.  The f32 value NaN (0.0 / 0.0) is the model value NaN, an  *)
(* integer reserved outside the range of every number the model computes:  *)
(* it compares false with everything, as in IEEE 754, and no arithmetic is *)
(* ever applied to it.  An Option<T> is a sequence of at most one T.       *)
(***************************************************************************)
EXTENDS Integers, Sequences, FiniteSets, TLC

VARIABLES
    pc,         \* position of the operation under way
    ray,        \* the ray handed to local_intersect (object space)
    xs,         \* color_at's clone of the intersection list (left untouched by hit)
    inter,      \* the Vec<Intersection> that hit() retains and sorts in place
    hitRes,     \* Option<Intersection> returned by hit()
    va,         \* left operand of a Vec4 subtraction
    vb,         \* right operand of a Vec4 subtraction
    vdiff,      \* Option<Vec4>: va - vb once computed
    matrix,     \* a Matrix4x4
    inv,        \* Option<Matrix4x4>: matrix.invert() once it has returned
    inv2,       \* Option<Matrix4x4>: matrix.invert().invert() once it has returned
    prod,       \* Option<Matrix4x4>: matrix * matrix.invert() once computed
    transform,  \* the transform field of a shape
    refraction, \* material().refraction of each shape of the world, in tenths
    comp,       \* Option<Comp> returned by prepare_computations
    calls,      \* the color_at calls under way, outermost first
    budget,     \* the remaining argument of the outermost color_at call
    camera,     \* Camera: hsize and vsize, as render casts them to usize
    world,      \* World: objects and lights
    visible,    \* the object hit() returns for the ray of each pixel, 0 for none
    image,      \* the Canvas render is filling
    cursor,     \* <<x, y>> of the loops of render
    written,    \* history: the pixels set_color has stored in this render
    canvases,   \* the canvases returned by the calls of render so far
    point,      \* the point handed to is_shadowed or to world_normal_at
    shadowed,   \* what is_shadowed did: "true", "false", "panic"; "pending" before
    solid,      \* the one shape of a world whose intersect_world is called
    mesh,       \* the model file: its numbers of v and vn lines and its f lines
    overflow_checks, \* whether the build panics on integer overflow (debug) or wraps
    triangles,  \* Option<Vec<Box<dyn Shape>>>: process_obj_file's result, None for a panic
    wnormal,    \* Option<Vec4>: what world_normal_at returned
    hitcomp,         \* the Comp handed to shade_hit
    shade_remaining, \* the remaining handed to shade_hit
    surroundings,    \* what the World answers: its lights, is_shadowed, color_at
    flag,            \* Option<bool>: the local `shadowed` of shade_hit
    local_color,     \* Option<Color>: the sum of lighting over the lights
    reflected,       \* Option<Color>: what reflected_color returned
    refracted,       \* Option<Color>: what refracted_color returned
    shade_result,    \* Option<Color>: what shade_hit returned
    rays_cast,       \* the color_at calls made so far: ray and remaining
    shadow_tests,    \* the points handed to is_shadowed so far
    given_xs,        \* Option<Option<&Vec<Intersection>>>: the xs handed to prepare_computations
    context,         \* Option<Intersection>: the i handed to world_normal_at
    cnormal,         \* Option<Vec4>: what SmoothTriangle::local_normal_at returned for it
    lnormal,         \* Option<Vec4>: what local_normal_at returned inside world_normal_at
    lighting_args,   \* the arguments of a call of Material::lighting
    lighting_out,    \* Option: the terms it computed and the colour it returned
    pattern_args,    \* the pattern, the shape's transform and the world point of a color_at_object call
    sampled,         \* Option<Color>: what color_at_object returned
    scene,           \* the Model that main builds and hands to the world
    loaded_with,     \* the Material given to Model::new
    mesh_xs,         \* Option<Vec<Intersection>>: what intersect_world returned for the mesh
    shaded,          \* Option: the object, transform, material and normal color_at shades with
    walk,            \* the loop of prepare_computations: next index, stack, n1, n2, whether it broke
    lit_args,        \* a hit in a world of several lights: material, point, vectors, lights
    lit_out          \* Option: shade_hit's shadow flag, each light's lighting and their sum

engineVars == <<ray, xs, inter, hitRes>>

vecVars == <<va, vb, vdiff>>

matVars == <<matrix, inv, inv2, prod>>

compVars == <<refraction, comp>>

traceVars == <<calls, budget>>

renderVars == <<camera, world, visible, image, cursor, written, canvases>>

shadowVars == <<point, shadowed>>

loaderVars == <<mesh, overflow_checks, triangles>>

shadeVars == <<hitcomp, shade_remaining, surroundings, flag, local_color, reflected,
               refracted, shade_result, rays_cast, shadow_tests>>

contextVars == <<given_xs, context, cnormal>>

lightingVars == <<lighting_args, lighting_out>>

patternVars == <<pattern_args, sampled>>

litVars == <<lit_args, lit_out>>

sceneVars == <<scene, loaded_with, mesh_xs, shaded>>

vars == <<pc, engineVars, vecVars, matVars, transform, compVars, traceVars, renderVars, shadowVars, solid, loaderVars, wnormal, shadeVars, contextVars, lnormal, lightingVars, patternVars, sceneVars, walk, litVars>>

(***************************************************************************)
(* Bounds of the model.                                                    *)
(***************************************************************************)
MaxLen == 3      \* longest hand-built intersection list
MaxT == 2        \* |t| of a hand-built intersection
NumObj == 2      \* shapes a hand-built list may reference
MaxOrigin == 1   \* |x|, |y| of a ray origin
OriginZ == 5     \* |z| of a ray origin
Scale == 100     \* fixed-point units per 1.0
MaxCoord == 1    \* |x|, |y|, |z| of a Vec4 operand
NumShapes == 2   \* shapes of a world whose intersections are walked
MaxXs == 4       \* longest list intersect_world returns
MaxBehind == 2   \* intersections of that list that may lie behind the ray origin
MaxRemaining == 4 \* largest remaining handed to the outermost color_at
MaxSize == 2     \* largest hsize and vsize of a camera
NumRenders == 2  \* calls of render on the same world and camera
MaxIndex == 2    \* largest index of a face line, and most v lines and vn lines of a file
MaxTokens == 5   \* most vertex tokens of a face line


NaN == 1000000000

None == <<>>

Some(x) == <<x>>

IsNaN(a) == a = NaN

\* f32::abs
Abs(n) == IF n < 0 THEN -n ELSE n

\* f32 comparisons: every comparison with NaN is false.
FGt(a, b) == ~IsNaN(a) /\ ~IsNaN(b) /\ a > b
FLt(a, b) == ~IsNaN(a) /\ ~IsNaN(b) /\ a < b
FLe(a, b) == ~IsNaN(a) /\ ~IsNaN(b) /\ a <= b

RECURSIVE SqrtSearch(_, _, _)
SqrtSearch(n, lo, hi) ==
    IF lo >= hi THEN lo
    ELSE LET mid == (lo + hi + 1) \div 2
         IN IF mid * mid <= n THEN SqrtSearch(n, mid, hi)
            ELSE SqrtSearch(n, lo, mid - 1)

RECURSIVE SqrtUpper(_, _)
SqrtUpper(n, h) ==
    IF h * h > n THEN h
    ELSE IF h >= 32768 THEN 46340
    ELSE SqrtUpper(n, 2 * h)

\* f32::sqrt of n >= 0, where n counts units of 1/Scale^2: the result counts
\* units of 1/Scale (rounded down).
Sqrt(n) == SqrtSearch(n, 0, SqrtUpper(n, 1))

(***************************************************************************)
(* geometry.rs: Vec4                                                       *)
(***************************************************************************)
Vec4_raw(x, y, z, w) == [x |-> x, y |-> y, z |-> z, w |-> w]

Vec4_point(x, y, z) == Vec4_raw(x, y, z, 1)

Vec4_vector(x, y, z) == Vec4_raw(x, y, z, 0)

\* A subtraction that keeps the left operand's w (as Sub<f32> for Vec4 does).
Vec4_sub_keep_w(a, b) == Vec4_raw(a.x - b.x, a.y - b.y, a.z - b.z, a.w)

\* impl Sub for Vec4
Vec4_sub(a, b) == Vec4_raw(a.x - b.x, a.y - b.y, a.z - b.z, a.w - b.w)

Vec4_dot(a, b) == a.x * b.x + a.y * b.y + a.z * b.z + a.w * b.w

(***************************************************************************)
(* geometry.rs: Matrix4x4 and its 3x3 / 2x2 helpers.  A matrix is          *)
(* [n |-> sixteen integers in row-major order, d |-> a positive integer]   *)
(* and stands for the f32 matrix n / d, kept in lowest terms.  The 3x3 and *)
(* 2x2 helpers are only ever built from a 4x4 numerator, so they are       *)
(* plain integer sequences.                                                *)
(***************************************************************************)
RECURSIVE Gcd(_, _)
Gcd(a, b) == IF b = 0 THEN Abs(a) ELSE Gcd(b, a % Abs(b))

RECURSIVE GcdSeq(_, _)
GcdSeq(s, g) == IF s = <<>> THEN g ELSE GcdSeq(Tail(s), Gcd(Head(s), g))

\* n / d in lowest terms with d > 0 (d # 0).
Lowest(n, d) ==
    LET g == GcdSeq(n, d)
        sg == IF d < 0 THEN -g ELSE g
    IN [n |-> [k \in 1..Len(n) |-> n[k] \div sg], d |-> d \div sg]

\* Matrix4x4::new, for the matrix mat / den.
Matrix4x4_new(mat, den) == Lowest(mat, den)

Matrix4x4_identity ==
    Matrix4x4_new(<< 1, 0, 0, 0,
                     0, 1, 0, 0,
                     0, 0, 1, 0,
                     0, 0, 0, 1 >>, 1)

\* Matrix3x3::get, Matrix4x4::get on a numerator.
Get3(mat, r, c) == mat[c + r * 3 + 1]

Get4(mat, r, c) == mat[c + r * 4 + 1]

\* The i-th (from 0) of the row or column indices that a submatrix loop
\* keeps: the indices other than skip, in ascending order.
Kept(i, skip) == IF i < skip THEN i ELSE i + 1

Matrix2x2_determinant(mat) == mat[1] * mat[4] - mat[2] * mat[3]

Matrix3x3_submatrix(mat, row, col) ==
    [k \in 1..4 |-> Get3(mat, Kept((k - 1) \div 2, row), Kept((k - 1) % 2, col))]

Matrix3x3_minor(mat, row, col) == Matrix2x2_determinant(Matrix3x3_submatrix(mat, row, col))

Matrix3x3_cofactor(mat, row, col) ==
    IF (row + col) % 2 # 0 THEN -Matrix3x3_minor(mat, row, col)
    ELSE Matrix3x3_minor(mat, row, col)

Matrix3x3_determinant(mat) ==
    Get3(mat, 0, 0) * Matrix3x3_cofactor(mat, 0, 0) +
    Get3(mat, 0, 1) * Matrix3x3_cofactor(mat, 0, 1) +
    Get3(mat, 0, 2) * Matrix3x3_cofactor(mat, 0, 2)

Matrix4x4_submatrix(mat, row, col) ==
    [k \in 1..9 |-> Get4(mat, Kept((k - 1) \div 3, row), Kept((k - 1) % 3, col))]

Matrix4x4_minor(mat, row, col) == Matrix3x3_determinant(Matrix4x4_submatrix(mat, row, col))

Matrix4x4_cofactor(mat, row, col) ==
    IF (row + col) % 2 # 0 THEN -Matrix4x4_minor(mat, row, col)
    ELSE Matrix4x4_minor(mat, row, col)

\* Matrix4x4::determinant of a numerator: Laplace expansion along row 0.
Det4(mat) ==
    Get4(mat, 0, 0) * Matrix4x4_cofactor(mat, 0, 0) +
    Get4(mat, 0, 1) * Matrix4x4_cofactor(mat, 0, 1) +
    Get4(mat, 0, 2) * Matrix4x4_cofactor(mat, 0, 2) +
    Get4(mat, 0, 3) * Matrix4x4_cofactor(mat, 0, 3)

RECURSIVE OverPower(_, _, _, _)
\* p / (q * d^k) in lowest terms, as <<numerator, denominator>>.
OverPower(p, q, d, k) ==
    IF k = 0 THEN <<p, q>>
    ELSE LET g == Gcd(p, d)
         IN OverPower(p \div g, q * (d \div g), d, k - 1)

\* Matrix4x4::determinant of the matrix m.n / m.d: Det4(m.n) / m.d^4.
Matrix4x4_determinant(m) == OverPower(Det4(m.n), 1, m.d, 4)

\* util.rs THRESHOLD_F32 = 0.00001 is 1 / ThresholdInv.
ThresholdInv == 100000

\* util::equals_f32(x, 0.0) for x = num / den, den > 0: |x| < THRESHOLD_F32.
EqualsZero(num, den) == Abs(num) < (den + ThresholdInv - 1) \div ThresholdInv

\* util::equals_f32 on two rationals a / ad and b / bd.
Equals_f32(a, ad, b, bd) == EqualsZero(a * bd - b * ad, ad * bd)

Matrix4x4_is_invertible(m) ==
    ~EqualsZero(Matrix4x4_determinant(m)[1], Matrix4x4_determinant(m)[2])

Matrix4x4_transpose(mat) == [k \in 1..16 |-> Get4(mat, (k - 1) % 4, (k - 1) \div 4)]

\* The matrix invert builds before transposing it: entry (r, c) is
\* cofactor(r, c) / det = m.d * Cofactor(m.n, r, c) / Det4(m.n).
CofactorMatrix(m) ==
    [k \in 1..16 |-> m.d * Matrix4x4_cofactor(m.n, (k - 1) \div 4, (k - 1) % 4)]

\* An invert without the invertibility guard.  A zero determinant then
\* divides by 0.0 (entries inf or NaN): the matrix is returned with d = 0.
Matrix4x4_invert_unguarded(m) ==
    IF Det4(m.n) = 0
    THEN Some([n |-> Matrix4x4_transpose(CofactorMatrix(m)), d |-> 0])
    ELSE Some(Matrix4x4_new(Matrix4x4_transpose(CofactorMatrix(m)), Det4(m.n)))

\* Matrix4x4::invert: None when it panics, Some(inverse) when it returns.
Matrix4x4_invert(m) ==
    IF ~Matrix4x4_is_invertible(m) THEN None
    ELSE Some(Matrix4x4_new(Matrix4x4_transpose(CofactorMatrix(m)), Det4(m.n)))

\* impl Mul for Matrix4x4
Matrix4x4_mul(a, b) ==
    Matrix4x4_new(
        [k \in 1..16 |->
            LET r == (k - 1) \div 4
                c == (k - 1) % 4
            IN Get4(a.n, r, 0) * Get4(b.n, 0, c) + Get4(a.n, r, 1) * Get4(b.n, 1, c) +
               Get4(a.n, r, 2) * Get4(b.n, 2, c) + Get4(a.n, r, 3) * Get4(b.n, 3, c)],
        a.d * b.d)

\* impl PartialEq for Matrix4x4
Matrix4x4_eq(a, b) == \A k \in 1..16 : Equals_f32(a.n[k], a.d, b.n[k], b.d)

\* Matrix4x4::translation(x / den, y / den, z / den)
Matrix4x4_translation(x, y, z, den) ==
    Matrix4x4_new(<< den, 0, 0, x,
                     0, den, 0, y,
                     0, 0, den, z,
                     0, 0, 0, den >>, den)

\* Matrix4x4::scale(x / den, y / den, z / den)
Matrix4x4_scale(x, y, z, den) ==
    Matrix4x4_new(<< x, 0, 0, 0,
                     0, y, 0, 0,
                     0, 0, z, 0,
                     0, 0, 0, den >>, den)

\* Matrix4x4::shearing with integer arguments
Matrix4x4_shearing(xy, xz, yx, yz, zx, zy) ==
    Matrix4x4_new(<< 1, xy, xz, 0,
                     yx, 1, yz, 0,
                     zx, zy, 1, 0,
                     0, 0, 0, 1 >>, 1)

(***************************************************************************)
(* ray.rs, intersection.rs                                                 *)
(***************************************************************************)
\* A ray is [origin, direction, den] and stands for the f32 ray
\* (origin / den, direction / den): Ray::new builds it from integer
\* components, a transform by a matrix n / d multiplies den by d.
Ray_new(origin, direction) == [origin |-> origin, direction |-> direction, den |-> 1]

\* impl Mul<Vec4> for Matrix4x4, on a numerator
Matrix4x4_mul_vec(mat, v) ==
    Vec4_raw(
        Get4(mat, 0, 0) * v.x + Get4(mat, 0, 1) * v.y + Get4(mat, 0, 2) * v.z + Get4(mat, 0, 3) * v.w,
        Get4(mat, 1, 0) * v.x + Get4(mat, 1, 1) * v.y + Get4(mat, 1, 2) * v.z + Get4(mat, 1, 3) * v.w,
        Get4(mat, 2, 0) * v.x + Get4(mat, 2, 1) * v.y + Get4(mat, 2, 2) * v.z + Get4(mat, 2, 3) * v.w,
        Get4(mat, 3, 0) * v.x + Get4(mat, 3, 1) * v.y + Get4(mat, 3, 2) * v.z + Get4(mat, 3, 3) * v.w)

\* Ray::transform
Ray_transform(r, t) ==
    [origin |-> Matrix4x4_mul_vec(t.n, r.origin),
     direction |-> Matrix4x4_mul_vec(t.n, r.direction),
     den |-> r.den * t.d]

Intersection_new(object, t) == [object |-> object, t |-> t]

\* The unit sphere's id in lists built by local_intersect.
SphereId == 1

\* A local_intersect that pushes the larger root first.
Sphere_local_intersect_swapped(r) ==
    LET sphere_to_ray == Vec4_sub(r.origin, Vec4_raw(0, 0, 0, r.den))
        a == Vec4_dot(r.direction, r.direction)
        b == 2 * Vec4_dot(r.direction, sphere_to_ray)
        c == Vec4_dot(sphere_to_ray, sphere_to_ray) - r.den * r.den
        discriminant == b * b - 4 * a * c
        root == Sqrt(discriminant * Scale * Scale)
    IN IF discriminant < 0 THEN <<>>
       ELSE IF a = 0
            THEN << Intersection_new(SphereId, NaN), Intersection_new(SphereId, NaN) >>
            ELSE << Intersection_new(SphereId, ((-b) * Scale + root) \div (2 * a)),
                    Intersection_new(SphereId, ((-b) * Scale - root) \div (2 * a)) >>

\* shape.rs Sphere::local_intersect.  a, b, c are exact integers counting
\* units of 1/den^2 (the point (0,0,0) is (0,0,0,den) / den and 1.0 is
\* den^2 / den^2), the discriminant counts units of 1/den^4; the two roots
\* are in units of 1/Scale.
Sphere_local_intersect(r) ==
    LET sphere_to_ray == Vec4_sub(r.origin, Vec4_raw(0, 0, 0, r.den))
        a == Vec4_dot(r.direction, r.direction)
        b == 2 * Vec4_dot(r.direction, sphere_to_ray)
        c == Vec4_dot(sphere_to_ray, sphere_to_ray) - r.den * r.den
        discriminant == b * b - 4 * a * c
        root == Sqrt(discriminant * Scale * Scale)
    IN IF discriminant < 0 THEN <<>>
       ELSE IF a = 0
            THEN << Intersection_new(SphereId, NaN), Intersection_new(SphereId, NaN) >>
            ELSE << Intersection_new(SphereId, ((-b) * Scale - root) \div (2 * a)),
                    Intersection_new(SphereId, ((-b) * Scale + root) \div (2 * a)) >>

\* A retain that keeps t = 0 (>= for >).
RetainNonNegative(s) == SelectSeq(s, LAMBDA x : ~IsNaN(x.t) /\ x.t >= 0)

\* Vec::retain(|x| x.t > 0.0)
Retain(s) == SelectSeq(s, LAMBDA x : FGt(x.t, 0))

RECURSIVE InsertSorted(_, _)
InsertSorted(s, x) ==
    IF s = <<>> THEN <<x>>
    ELSE IF FLt(x.t, s[Len(s)].t)
         THEN Append(InsertSorted(SubSeq(s, 1, Len(s) - 1), x), s[Len(s)])
         ELSE Append(s, x)

RECURSIVE SortByT(_)
\* Vec::sort_by(|a, b| a.t.partial_cmp(&b.t).unwrap()): a stable sort, so
\* entries of equal t keep their order.  (partial_cmp is None on a NaN and the
\* unwrap would panic; hit sorts after the retain, which drops every NaN.)
SortByT(s) ==
    IF s = <<>> THEN <<>>
    ELSE InsertSorted(SortByT(SubSeq(s, 1, Len(s) - 1)), s[Len(s)])

\* intersection.rs Intersection::hit: the list after retain and sort, and
\* the value returned.
Hit_list(s) == SortByT(Retain(s))

Hit_result(s) == IF Len(Hit_list(s)) < 1 THEN None ELSE Some(Hit_list(s)[1])

\* The refraction index of vacuum, 1.0, in tenths.
Vacuum == 10

\* A reading of the stack at its first element instead of its last.
TopIndexFirst(stack, refr) == IF stack = <<>> THEN Vacuum ELSE refr[stack[1]]

\* stack.last().unwrap().material().refraction, or 1.0 for an empty stack;
\* refr gives each shape's material().refraction.
TopIndex(stack, refr) == IF stack = <<>> THEN Vacuum ELSE refr[stack[Len(stack)]]

\* The first position of the stack that holds the shape id, 0 if none does.
PositionOf(stack, id) ==
    IF \E i \in 1..Len(stack) : stack[i] = id
    THEN CHOOSE i \in 1..Len(stack) :
            stack[i] = id /\ \A j \in 1..(i - 1) : stack[j] # id
    ELSE 0

\* A stack update that pushes the shape whether or not it is in the stack.
UpdateStackPushOnly(stack, id) == Append(stack, id)

\* A stack update that leaves a shape that is in the stack where it is.
UpdateStack_without_remove(stack, id) ==
    IF PositionOf(stack, id) # 0 THEN stack ELSE Append(stack, id)

\* The stack after one intersection: the shape is removed if it is in the
\* stack (stack.remove(i)) and pushed otherwise.
UpdateStack(stack, id) ==
    IF PositionOf(stack, id) # 0
    THEN SubSeq(stack, 1, PositionOf(stack, id) - 1)
            \o SubSeq(stack, PositionOf(stack, id) + 1, Len(stack))
    ELSE Append(stack, id)

RECURSIVE Walk(_, _, _, _, _, _, _)
\* The for loop of prepare_computations from the i-th intersection on, with
\* the stack and the values of n1, n2 reached so far: <<n1, n2>> at its end.
Walk(self, list, i, stack, n1, n2, refr) ==
    IF i > Len(list) THEN <<n1, n2>>
    ELSE LET n1_new == TopIndex(stack, refr)
             stack_new == UpdateStack(stack, list[i].object)
             n2_new == TopIndex(stack_new, refr)
         IN IF self.object = list[i].object /\ self.t = list[i].t
            THEN <<n1_new, n2_new>>
            ELSE Walk(self, list, i + 1, stack_new, n1_new, n2_new, refr)

\* A prepare_computations that returns a Comp for a list that is absent or
\* empty, with both indices at 1.0.
Prepare_computations_lenient(self, list, refr) ==
    Some([t |-> self.t, object |-> self.object, n1 |-> Vacuum, n2 |-> Vacuum])

\* Intersection::prepare_computations(&self, ray, xs) for xs an
\* Option<Vec<Intersection>>: None when it panics (xs.unwrap()[0] on a list
\* that is absent or empty), Some(comp) otherwise.  Of Comp the record keeps
\* t, object, n1 and n2; the geometric fields are not part of it.
Prepare_computations(self, list, refr) ==
    LET n == IF list = None THEN <<Vacuum, Vacuum>>
             ELSE Walk(self, list[1], 1, <<>>, Vacuum, Vacuum, refr)
    IN IF list = None \/ list[1] = <<>> THEN None
       ELSE Some([t |-> self.t, object |-> self.object, n1 |-> n[1], n2 |-> n[2]])

(***************************************************************************)
(* Inputs of the intersection engine.                                      *)
(***************************************************************************)
TValues == (-MaxT..MaxT) \cup {NaN}

Entries == { Intersection_new(o, t) : o \in 1..NumObj, t \in TValues }

Lists == UNION { [1..n -> Entries] : n \in 0..MaxLen }

Origins == { Vec4_point(x, y, z) :
                x \in -MaxOrigin..MaxOrigin, y \in -MaxOrigin..MaxOrigin,
                z \in -OriginZ..OriginZ }

Directions == { Vec4_vector(x, y, z) : x \in {0, 1}, y \in {0, 1}, z \in {-1, 0, 1} }

Rays == { Ray_new(o, d) : o \in Origins, d \in Directions }

(***************************************************************************)
(* The intersection engine as a state machine: a list is obtained, either  *)
(* built by the caller or returned by a sphere's local_intersect, and hit  *)
(* is called on it.                                                        *)
(***************************************************************************)
\* The state of a part of the program that a specification does not run.
EngineIdle == ray = None /\ xs = <<>> /\ inter = <<>> /\ hitRes = None

VecIdle == va = Vec4_raw(0, 0, 0, 0) /\ vb = Vec4_raw(0, 0, 0, 0) /\ vdiff = None

MatIdle == matrix = Matrix4x4_identity /\ inv = None /\ inv2 = None /\ prod = None

\* Sphere::new sets transform: Matrix4x4::identity().
ShapeIdle == transform = Matrix4x4_identity

CompIdle == refraction = <<>> /\ comp = None

TraceIdle == calls = <<>> /\ budget = 0

NormalIdle == wnormal = None

SceneIdle ==
    /\ scene = [kind |-> "none"]
    /\ loaded_with = [kind |-> "none"]
    /\ mesh_xs = None
    /\ shaded = None

WalkIdle == walk = [kind |-> "none"]

LitIdle == lit_args = [kind |-> "none"] /\ lit_out = None

PatternIdle == pattern_args = [kind |-> "none"] /\ sampled = None

LightingIdle == lighting_args = [kind |-> "none"] /\ lighting_out = None

LocalNormalIdle == lnormal = None

ContextIdle == given_xs = None /\ context = None /\ cnormal = None

ShadeIdle ==
    /\ hitcomp = [kind |-> "none"]
    /\ shade_remaining = 0
    /\ surroundings = [kind |-> "none"]
    /\ flag = None
    /\ local_color = None
    /\ reflected = None
    /\ refracted = None
    /\ shade_result = None
    /\ rays_cast = <<>>
    /\ shadow_tests = <<>>

LoaderIdle ==
    /\ mesh = [verts |-> 0, vert_normals |-> 0, faces |-> <<>>]
    /\ overflow_checks = FALSE
    /\ triangles = None

SolidIdle == solid = [kind |-> "none"]

ShadowIdle == point = Vec4_raw(0, 0, 0, 0) /\ shadowed = "pending"

RenderIdle ==
    /\ camera = [hsize |-> 0, vsize |-> 0]
    /\ world = [objects |-> <<>>, lights |-> <<>>]
    /\ visible = <<>>
    /\ image = [width |-> 0, height |-> 0, buffer |-> <<>>]
    /\ cursor = <<0, 0>>
    /\ written = {}
    /\ canvases = <<>>

Init ==
    /\ pc = "start"
    /\ EngineIdle
    /\ VecIdle
    /\ MatIdle
    /\ ShapeIdle
    /\ CompIdle
    /\ TraceIdle
    /\ RenderIdle
    /\ ShadowIdle
    /\ SolidIdle
    /\ LoaderIdle
    /\ NormalIdle
    /\ ShadeIdle
    /\ ContextIdle
    /\ LocalNormalIdle
    /\ LightingIdle
    /\ PatternIdle
    /\ SceneIdle
    /\ WalkIdle
    /\ LitIdle

\* A caller builds a Vec<Intersection> with Intersection::new.
BuildList ==
    /\ pc = "start"
    /\ \E l \in Lists :
        /\ inter' = l
        /\ xs' = l
    /\ pc' = "listed"
    /\ UNCHANGED <<ray, hitRes, vecVars, matVars, transform, compVars, traceVars, renderVars, shadowVars, solid, loaderVars, wnormal, shadeVars, contextVars, lnormal, lightingVars, patternVars, sceneVars, walk, litVars>>

\* shape.local_intersect(&ray) on the unit sphere.
LocalIntersect ==
    /\ pc = "start"
    /\ \E r \in Rays :
        /\ ray' = Some(r)
        /\ inter' = Sphere_local_intersect(r)
        /\ xs' = Sphere_local_intersect(r)
    /\ pc' = "listed"
    /\ UNCHANGED <<hitRes, vecVars, matVars, transform, compVars, traceVars, renderVars, shadowVars, solid, loaderVars, wnormal, shadeVars, contextVars, lnormal, lightingVars, patternVars, sceneVars, walk, litVars>>

\* Intersection::hit(&mut inter)
Hit ==
    /\ pc = "listed"
    /\ inter' = Hit_list(inter)
    /\ hitRes' = Hit_result(inter)
    /\ pc' = "hit"
    /\ UNCHANGED <<ray, xs, vecVars, matVars, transform, compVars, traceVars, renderVars, shadowVars, solid, loaderVars, wnormal, shadeVars, contextVars, lnormal, lightingVars, patternVars, sceneVars, walk, litVars>>

Next == BuildList \/ LocalIntersect \/ Hit

Spec == Init /\ [][Next]_vars

(***************************************************************************)
(* The geometric kernel's Vec4 arithmetic: two operands built by           *)
(* Vec4::point or Vec4::vector are subtracted.                             *)
(***************************************************************************)
Coords == -MaxCoord..MaxCoord

Points == { Vec4_point(x, y, z) : x \in Coords, y \in Coords, z \in Coords }

Vectors == { Vec4_vector(x, y, z) : x \in Coords, y \in Coords, z \in Coords }

InitVec ==
    /\ pc = "start"
    /\ va \in Points \cup Vectors
    /\ vb \in Points \cup Vectors
    /\ vdiff = None
    /\ EngineIdle
    /\ MatIdle
    /\ ShapeIdle
    /\ CompIdle
    /\ TraceIdle
    /\ RenderIdle
    /\ ShadowIdle
    /\ SolidIdle
    /\ LoaderIdle
    /\ NormalIdle
    /\ ShadeIdle
    /\ ContextIdle
    /\ LocalNormalIdle
    /\ LightingIdle
    /\ PatternIdle
    /\ SceneIdle
    /\ WalkIdle
    /\ LitIdle

\* va - vb
Sub ==
    /\ pc = "start"
    /\ vdiff' = Some(Vec4_sub(va, vb))
    /\ pc' = "subtracted"
    /\ UNCHANGED <<va, vb, engineVars, matVars, transform, compVars, traceVars, renderVars, shadowVars, solid, loaderVars, wnormal, shadeVars, contextVars, lnormal, lightingVars, patternVars, sceneVars, walk, litVars>>

NextVec == Sub

SpecVec == InitVec /\ [][NextVec]_vars

(***************************************************************************)
(* The geometric kernel's matrix inversion: a matrix built by the named    *)
(* constructors, by Matrix4x4::new or as a product is inverted; the        *)
(* inverse is inverted again, or multiplied with the matrix.               *)
(***************************************************************************)
ScaleArgs == {-1, 0, 1, 2, 100}

Denominators == {1, 100}

Scalings == { Matrix4x4_scale(x, y, z, den) :
                x \in ScaleArgs, y \in ScaleArgs, z \in ScaleArgs, den \in Denominators }

Translations == { Matrix4x4_translation(x, y, z, 1) : x \in Coords, y \in Coords, z \in Coords }

Shearings == { Matrix4x4_shearing(xy, xz, yx, yz, zx, zy) :
                xy \in {0, 1}, xz \in {0, 1}, yx \in {0, 1},
                yz \in {0, 1}, zx \in {0, 1}, zy \in {0, 1} }

\* Two matrices built by Matrix4x4::new: a dense invertible one and a
\* singular one (a row of zeros).
DenseMatrices ==
    { Matrix4x4_new(<< -5, 2, 6, -8,
                       1, -5, 1, 8,
                       7, 7, -6, -7,
                       1, -3, 7, 4 >>, 1),
      Matrix4x4_new(<< -4, 2, -2, -3,
                       9, 6, 2, 6,
                       0, -5, 1, -5,
                       0, 0, 0, 0 >>, 1) }

\* translation * scale, the shape of the transforms main.rs builds.
Products ==
    { Matrix4x4_mul(t, Matrix4x4_scale(x, y, z, 1)) :
        t \in { Matrix4x4_translation(0, 1, -1, 1), Matrix4x4_translation(1, 0, 0, 1) },
        x \in ScaleArgs, y \in ScaleArgs, z \in ScaleArgs }

MatrixInputs == Scalings \cup Translations \cup Shearings \cup DenseMatrices \cup Products

InitMatrix ==
    /\ pc = "start"
    /\ matrix \in MatrixInputs
    /\ inv = None /\ inv2 = None /\ prod = None
    /\ EngineIdle
    /\ VecIdle
    /\ ShapeIdle
    /\ CompIdle
    /\ TraceIdle
    /\ RenderIdle
    /\ ShadowIdle
    /\ SolidIdle
    /\ LoaderIdle
    /\ NormalIdle
    /\ ShadeIdle
    /\ ContextIdle
    /\ LocalNormalIdle
    /\ LightingIdle
    /\ PatternIdle
    /\ SceneIdle
    /\ WalkIdle
    /\ LitIdle

\* m.invert()
Invert ==
    /\ pc = "start"
    /\ LET res == Matrix4x4_invert(matrix)
       IN /\ inv' = res
          /\ pc' = IF res = None THEN "panicked" ELSE "inverted"
    /\ UNCHANGED <<matrix, inv2, prod, engineVars, vecVars, transform, compVars, traceVars, renderVars, shadowVars, solid, loaderVars, wnormal, shadeVars, contextVars, lnormal, lightingVars, patternVars, sceneVars, walk, litVars>>

\* m.invert().invert()
InvertAgain ==
    /\ pc = "inverted"
    /\ LET res == Matrix4x4_invert(inv[1])
       IN /\ inv2' = res
          /\ pc' = IF res = None THEN "panicked2" ELSE "inverted2"
    /\ UNCHANGED <<matrix, inv, prod, engineVars, vecVars, transform, compVars, traceVars, renderVars, shadowVars, solid, loaderVars, wnormal, shadeVars, contextVars, lnormal, lightingVars, patternVars, sceneVars, walk, litVars>>

\* m * m.invert()
Multiply ==
    /\ pc = "inverted"
    /\ prod' = Some(Matrix4x4_mul(matrix, inv[1]))
    /\ pc' = "multiplied"
    /\ UNCHANGED <<matrix, inv, inv2, engineVars, vecVars, transform, compVars, traceVars, renderVars, shadowVars, solid, loaderVars, wnormal, shadeVars, contextVars, lnormal, lightingVars, patternVars, sceneVars, walk, litVars>>

NextMatrix == Invert \/ InvertAgain \/ Multiply

SpecMatrix == InitMatrix /\ [][NextMatrix]_vars

(***************************************************************************)
(* A shape's transform: a Sphere is built, set_transform stores a matrix   *)
(* in it, and Intersection::intersect inverts the stored matrix to carry a *)
(* ray into object space.                                                  *)
(***************************************************************************)
ShapeTransforms ==
    { Matrix4x4_scale(x, y, z, den) :
        x \in {0, 1, 2}, y \in {0, 1, 2}, z \in {0, 1, 2}, den \in Denominators }
    \cup Translations \cup Shearings

\* The rays cast at the shape: those of Rays that start on the z axis.
ShapeRays == { r \in Rays : r.origin.x = 0 /\ r.origin.y = 0 }

InitShape ==
    /\ pc = "start"
    /\ ShapeIdle
    /\ EngineIdle
    /\ VecIdle
    /\ MatIdle
    /\ CompIdle
    /\ TraceIdle
    /\ RenderIdle
    /\ ShadowIdle
    /\ SolidIdle
    /\ LoaderIdle
    /\ NormalIdle
    /\ ShadeIdle
    /\ ContextIdle
    /\ LocalNormalIdle
    /\ LightingIdle
    /\ PatternIdle
    /\ SceneIdle
    /\ WalkIdle
    /\ LitIdle

\* Sphere::set_transform(matrix): stores the matrix, whatever it is.
SetTransform ==
    /\ pc = "start"
    /\ \E t \in ShapeTransforms : transform' = t
    /\ pc' = "set"
    /\ UNCHANGED <<engineVars, vecVars, matVars, compVars, traceVars, renderVars, shadowVars, solid, loaderVars, wnormal, shadeVars, contextVars, lnormal, lightingVars, patternVars, sceneVars, walk, litVars>>

\* Intersection::intersect(shape, ray): the invert panics, or the ray is
\* transformed and handed to local_intersect.
Intersect ==
    /\ pc = "set"
    /\ \E inverse \in {Matrix4x4_invert(transform)} :
        IF inverse = None
        THEN /\ pc' = "panicked"
             /\ UNCHANGED <<ray, xs, inter>>
        ELSE \E r \in ShapeRays :
                \E local \in {Ray_transform(r, inverse[1])} :
                    /\ ray' = Some(local)
                    /\ xs' = Sphere_local_intersect(local)
                    /\ inter' = xs'
                    /\ pc' = "listed"
    /\ UNCHANGED <<hitRes, transform, vecVars, matVars, compVars, traceVars, renderVars, shadowVars, solid, loaderVars, wnormal, shadeVars, contextVars, lnormal, lightingVars, patternVars, sceneVars, walk, litVars>>

NextShape == SetTransform \/ Intersect

SpecShape == InitShape /\ [][NextShape]_vars

(***************************************************************************)
(* The refractive-index walk: a world of NumShapes shapes, each with its   *)
(* material's refraction index, is intersected; prepare_computations is    *)
(* called on one intersection of the sorted list, or without a usable list.*)
(***************************************************************************)
RefractionValues == {10, 15, 20}

\* The lists intersect_world can return: any sequence of shapes, with t
\* ascending in steps of 1.0 and up to MaxBehind entries at t <= 0.
SortedLists ==
    UNION { { [i \in 1..n |-> Intersection_new(objs[i], (i - behind) * Scale)] :
                objs \in [1..n -> 1..NumShapes], behind \in 0..MaxBehind } :
            n \in 0..MaxXs }

InitRefract ==
    /\ pc = "start"
    /\ refraction \in [1..NumShapes -> RefractionValues]
    /\ comp = None
    /\ EngineIdle
    /\ VecIdle
    /\ MatIdle
    /\ ShapeIdle
    /\ TraceIdle
    /\ RenderIdle
    /\ ShadowIdle
    /\ SolidIdle
    /\ LoaderIdle
    /\ NormalIdle
    /\ ShadeIdle
    /\ ContextIdle
    /\ LocalNormalIdle
    /\ LightingIdle
    /\ PatternIdle
    /\ SceneIdle
    /\ WalkIdle
    /\ LitIdle

\* World::intersect_world(ray): the sorted list of all intersections.
IntersectWorld ==
    /\ pc = "start"
    /\ \E l \in SortedLists :
        /\ xs' = l
        /\ inter' = l
    /\ pc' = "listed"
    /\ UNCHANGED <<ray, hitRes, vecVars, matVars, transform, compVars, traceVars, renderVars, shadowVars, solid, loaderVars, wnormal, shadeVars, contextVars, lnormal, lightingVars, patternVars, sceneVars, walk, litVars>>

\* xs[k].prepare_computations(&ray, Some(&xs))
Prepare ==
    /\ pc = "listed"
    /\ \E k \in 1..Len(xs) :
        /\ hitRes' = Some(xs[k])
        /\ comp' = Prepare_computations(xs[k], Some(xs), refraction)
    /\ pc' = "prepared"
    /\ UNCHANGED <<ray, xs, inter, refraction, vecVars, matVars, transform, traceVars, renderVars, shadowVars, solid, loaderVars, wnormal, shadeVars, contextVars, lnormal, lightingVars, patternVars, sceneVars, walk, litVars>>

\* prepare_computations(&ray, None), or with an empty list: it panics.
PrepareWithoutList ==
    /\ pc = "listed"
    /\ \E k \in 1..Len(xs), l \in {None, Some(<<>>)} :
        /\ hitRes' = Some(xs[k])
        /\ comp' = Prepare_computations(xs[k], l, refraction)
    /\ pc' = "panicked"
    /\ UNCHANGED <<ray, xs, inter, refraction, vecVars, matVars, transform, traceVars, renderVars, shadowVars, solid, loaderVars, wnormal, shadeVars, contextVars, lnormal, lightingVars, patternVars, sceneVars, walk, litVars>>

NextRefract == IntersectWorld \/ Prepare \/ PrepareWithoutList

SpecRefract == InitRefract /\ [][NextRefract]_vars

\* The sorted lists in which a ray grazes a shape: local_intersect pushes
\* the two equal roots, so entry p + 1 repeats entry p.
TangentLists ==
    UNION { { [i \in 1..Len(l) |-> IF i = p + 1 THEN l[p] ELSE l[i]] :
                p \in 1..(Len(l) - 1) } : l \in SortedLists }

\* World::intersect_world(ray) for a ray that grazes one of the shapes.
IntersectWorldTangent ==
    /\ pc = "start"
    /\ \E l \in TangentLists :
        /\ xs' = l
        /\ inter' = l
    /\ pc' = "listed"
    /\ UNCHANGED <<ray, hitRes, vecVars, matVars, transform, compVars, traceVars, renderVars, shadowVars, solid, loaderVars, wnormal, shadeVars, contextVars, lnormal, lightingVars, patternVars, sceneVars, walk, litVars>>

NextWalk == IntersectWorld \/ IntersectWorldTangent \/ Prepare \/ PrepareWithoutList

SpecWalk == InitRefract /\ [][NextWalk]_vars

(***************************************************************************)
(* world.rs: the recursion of color_at.  A frame of calls is one call of   *)
(* color_at: its remaining argument, the material of the shape it hit and  *)
(* its position:                                                           *)
(*   "intersect"   before intersect_world / hit                            *)
(*   "reflect"     in shade_hit, about to call reflected_color             *)
(*   "reflecting"  inside reflected_color, waiting for the nested color_at *)
(*   "refract"     about to call refracted_color                           *)
(*   "refracting"  inside refracted_color, waiting for the nested color_at *)
(*   "combine"     both colours known, about to return                     *)
(* What a ray hits and whether a refraction is a total internal reflection *)
(* depend on the scene; both are chosen freely at each call, so the runs   *)
(* cover every world, a box of facing mirrors included.                    *)
(***************************************************************************)
\* reflective and transparency, in tenths, of the materials a ray may hit:
\* Material::default, a mirror, a clear solid and Sphere::glass_sphere.
Materials ==
    { [reflective |-> 0, transparency |-> 0],
      [reflective |-> 10, transparency |-> 0],
      [reflective |-> 0, transparency |-> 10],
      [reflective |-> 8, transparency |-> 10] }

NoMaterial == [reflective |-> 0, transparency |-> 0]

Frame(remaining, phase, material) ==
    [remaining |-> remaining, phase |-> phase, material |-> material]

\* A guard of reflected_color that forgets the recursion budget.
Reflected_color_returns_black_unbounded(material, remaining) == material.reflective = 0

\* reflected_color: comp.object.material().reflective == 0.0 || remaining == 0
Reflected_color_returns_black(material, remaining) ==
    material.reflective = 0 \/ remaining = 0

\* refracted_color: comp.object.material().transparency == 0.0 || remaining == 0
Refracted_color_returns_black(material, remaining) ==
    material.transparency = 0 \/ remaining = 0

Top == calls[Len(calls)]

SetTop(phase) == [calls EXCEPT ![Len(calls)].phase = phase]

InitTrace ==
    /\ pc = "running"
    /\ budget \in 0..MaxRemaining
    /\ calls = << Frame(budget, "intersect", NoMaterial) >>
    /\ EngineIdle
    /\ VecIdle
    /\ MatIdle
    /\ ShapeIdle
    /\ CompIdle
    /\ RenderIdle
    /\ ShadowIdle
    /\ SolidIdle
    /\ LoaderIdle
    /\ NormalIdle
    /\ ShadeIdle
    /\ ContextIdle
    /\ LocalNormalIdle
    /\ LightingIdle
    /\ PatternIdle
    /\ SceneIdle
    /\ WalkIdle
    /\ LitIdle

\* color_at: hit() finds nothing and black is returned; or shade_hit has
\* combined its colours and returns.  The caller resumes after its call.
Return ==
    /\ pc = "running"
    /\ Top.phase \in {"intersect", "combine"}
    /\ IF Len(calls) = 1
       THEN /\ calls' = <<>>
            /\ pc' = "done"
       ELSE /\ calls' = [ SubSeq(calls, 1, Len(calls) - 1) EXCEPT
                            ![Len(calls) - 1].phase =
                                IF @ = "reflecting" THEN "refract" ELSE "combine" ]
            /\ pc' = pc
    /\ UNCHANGED <<budget, engineVars, vecVars, matVars, transform, compVars, renderVars, shadowVars, solid, loaderVars, wnormal, shadeVars, contextVars, lnormal, lightingVars, patternVars, sceneVars, walk, litVars>>

\* color_at: hit() finds a shape; prepare_computations, and shade_hit up to
\* its call of reflected_color (shadow test and lighting).
HitShape ==
    /\ pc = "running"
    /\ Top.phase = "intersect"
    /\ \E mt \in Materials :
        calls' = [calls EXCEPT ![Len(calls)] = Frame(Top.remaining, "reflect", mt)]
    /\ UNCHANGED <<pc, budget, engineVars, vecVars, matVars, transform, compVars, renderVars, shadowVars, solid, loaderVars, wnormal, shadeVars, contextVars, lnormal, lightingVars, patternVars, sceneVars, walk, litVars>>

\* reflected_color returns black without a recursive call.
ReflectSkip ==
    /\ pc = "running"
    /\ Top.phase = "reflect"
    /\ Reflected_color_returns_black(Top.material, Top.remaining)
    /\ calls' = SetTop("refract")
    /\ UNCHANGED <<pc, budget, engineVars, vecVars, matVars, transform, compVars, renderVars, shadowVars, solid, loaderVars, wnormal, shadeVars, contextVars, lnormal, lightingVars, patternVars, sceneVars, walk, litVars>>

\* reflected_color calls self.color_at(reflect_ray, remaining - 1).  The
\* model subtracts in the integers: a negative remaining stands for the
\* underflow of the u32.
ReflectCall ==
    /\ pc = "running"
    /\ Top.phase = "reflect"
    /\ ~Reflected_color_returns_black(Top.material, Top.remaining)
    /\ calls' = Append(SetTop("reflecting"),
                        Frame(Top.remaining - 1, "intersect", NoMaterial))
    /\ UNCHANGED <<pc, budget, engineVars, vecVars, matVars, transform, compVars, renderVars, shadowVars, solid, loaderVars, wnormal, shadeVars, contextVars, lnormal, lightingVars, patternVars, sceneVars, walk, litVars>>

\* refracted_color returns black without a recursive call: its guard holds,
\* or sin2_t > 1.0 (total internal reflection).
RefractSkip ==
    /\ pc = "running"
    /\ Top.phase = "refract"
    /\ \E total_internal_reflection \in BOOLEAN :
        \/ Refracted_color_returns_black(Top.material, Top.remaining)
        \/ total_internal_reflection
    /\ calls' = SetTop("combine")
    /\ UNCHANGED <<pc, budget, engineVars, vecVars, matVars, transform, compVars, renderVars, shadowVars, solid, loaderVars, wnormal, shadeVars, contextVars, lnormal, lightingVars, patternVars, sceneVars, walk, litVars>>

\* refracted_color calls self.color_at(refract_ray, remaining - 1).
RefractCall ==
    /\ pc = "running"
    /\ Top.phase = "refract"
    /\ ~Refracted_color_returns_black(Top.material, Top.remaining)
    /\ calls' = Append(SetTop("refracting"),
                        Frame(Top.remaining - 1, "intersect", NoMaterial))
    /\ UNCHANGED <<pc, budget, engineVars, vecVars, matVars, transform, compVars, renderVars, shadowVars, solid, loaderVars, wnormal, shadeVars, contextVars, lnormal, lightingVars, patternVars, sceneVars, walk, litVars>>

NextTrace == Return \/ HitShape \/ ReflectSkip \/ ReflectCall \/ RefractSkip \/ RefractCall

SpecTrace == InitTrace /\ [][NextTrace]_vars

\* The renderer is one thread that runs each call to completion: a step
\* that can be taken is taken.
SpecTraceFair == SpecTrace /\ WF_vars(NextTrace)

(***************************************************************************)
(* camera.rs, canvas.rs: Camera::render.  Colour channels are thousandths. *)
(* Which object the ray of a pixel hits is fixed by the camera and by the  *)
(* transforms of the objects; it is drawn once, in visible, and every      *)
(* assignment of objects to pixels is explored.  The weights lighting      *)
(* derives from the geometry (ambient, diffuse, specular) are left out:    *)
(* the colour of a hit is the effective colour summed over the lights.     *)
(***************************************************************************)
RenderDepth == 5

Color_new(r, g, b) == <<r, g, b>>

Black == Color_new(0, 0, 0)

Color_add(c, d) == <<c[1] + d[1], c[2] + d[2], c[3] + d[3]>>

Color_mul(c, d) ==
    <<(c[1] * d[1]) \div 1000, (c[2] * d[2]) \div 1000, (c[3] * d[3]) \div 1000>>

Clamp_f32(num, low, high) ==
    IF num < low THEN low ELSE IF num > high THEN high ELSE num

\* (255.999 * channel) as u32
Channel(c) == (255999 * Clamp_f32(c, 0, 1000)) \div 1000000

\* (r << 16) | (g << 8) | b
Color_rgb(c) == Channel(c[1]) * 65536 + Channel(c[2]) * 256 + Channel(c[3])

\* World::default: two spheres of one material and one white point light.
World_default ==
    [ objects |-> << [color |-> Color_new(800, 1000, 600), reflective |-> 0, transparency |-> 0,
                      transform |-> Matrix4x4_identity],
                     [color |-> Color_new(800, 1000, 600), reflective |-> 0, transparency |-> 0,
                      transform |-> Matrix4x4_scale(5, 5, 5, 10)] >>,
      lights |-> << [intensity |-> Color_new(1000, 1000, 1000),
                     position |-> Vec4_point(-10, 10, -10)] >> ]

\* lighting: effective_color = color * light.intensity
Material_lighting(object, light) == Color_mul(object.color, light.intensity)

\* shade_hit: for light in &self.lights { color = color + c }
RECURSIVE SumLights(_, _, _)
SumLights(w, object, i) ==
    IF i > Len(w.lights) THEN Black
    ELSE Color_add(Material_lighting(object, w.lights[i]), SumLights(w, object, i + 1))

\* shade_hit: the objects of this world have reflective = 0.0 and
\* transparency = 0.0, so reflected_color and refracted_color return black
\* whatever remaining is.
World_shade_hit(w, object, remaining) ==
    IF /\ Reflected_color_returns_black(object, remaining)
       /\ Refracted_color_returns_black(object, remaining)
    THEN SumLights(w, object, 1)
    ELSE Black

\* color_at for a ray whose hit is the object of index hit (0: no hit).
World_color_at(w, hit, remaining) ==
    IF hit = 0 THEN Black ELSE World_shade_hit(w, w.objects[hit], remaining)

\* A render that takes the world by mutable reference and drops its light.
World_after_color_at_pops_light(w) == [w EXCEPT !.lights = <<>>]

\* color_at(&self, ...) under render(&self, world: &World): shared
\* references, and no field of World has interior mutability.
World_after_color_at(w) == w

\* Canvas::new
Canvas_new(width, height) ==
    [width |-> width, height |-> height, buffer |-> [i \in 1..(width * height) |-> 0]]

\* set_color returns without storing when x > width-1 || y > height-1.
Canvas_stores(cv, x, y) == ~(x > cv.width - 1 \/ y > cv.height - 1)

\* Canvas::set_color; buffer[k] of the code is buffer[k + 1] here.
Canvas_set_color(cv, x, y, color) ==
    IF Canvas_stores(cv, x, y)
    THEN [cv EXCEPT !.buffer[x + y * cv.width + 1] = Color_rgb(color)]
    ELSE cv

\* The values of a Rust range 0..n.
Range(n) == 0..(n - 1)

\* for y in 0..self.vsize as usize - 1
RenderRows == Range(camera.vsize - 1)

\* for x in 0..self.hsize as usize - 1
RenderCols == Range(camera.hsize - 1)

Cameras == { [hsize |-> h, vsize |-> v] : h \in 1..MaxSize, v \in 1..MaxSize }

Pixels(c) == Range(c.hsize) \X Range(c.vsize)

InitRender ==
    /\ pc = "start"
    /\ camera \in Cameras
    /\ world = World_default
    /\ visible \in [Pixels(camera) -> 0..Len(world.objects)]
    /\ image = [width |-> 0, height |-> 0, buffer |-> <<>>]
    /\ cursor = <<0, 0>>
    /\ written = {}
    /\ canvases = <<>>
    /\ EngineIdle
    /\ VecIdle
    /\ MatIdle
    /\ ShapeIdle
    /\ CompIdle
    /\ TraceIdle
    /\ ShadowIdle
    /\ SolidIdle
    /\ LoaderIdle
    /\ NormalIdle
    /\ ShadeIdle
    /\ ContextIdle
    /\ LocalNormalIdle
    /\ LightingIdle
    /\ PatternIdle
    /\ SceneIdle
    /\ WalkIdle
    /\ LitIdle

\* render is called: Canvas::new, and the loops start.
RenderStart ==
    /\ pc \in {"start", "returned"}
    /\ Len(canvases) < NumRenders
    /\ image' = Canvas_new(camera.hsize, camera.vsize)
    /\ cursor' = <<0, 0>>
    /\ written' = {}
    /\ pc' = "rendering"
    /\ UNCHANGED <<camera, world, visible, canvases,
                   engineVars, vecVars, matVars, transform, compVars, traceVars, shadowVars, solid, loaderVars, wnormal, shadeVars, contextVars, lnormal,
                   lightingVars, patternVars, sceneVars, walk, litVars>>

\* One turn of the inner loop: ray_for_pixel, color_at(ray, 5), set_color.
RenderPixel ==
    /\ pc = "rendering"
    /\ cursor[1] \in RenderCols
    /\ cursor[2] \in RenderRows
    /\ LET x == cursor[1]
           y == cursor[2]
           color == World_color_at(world, visible[<<x, y>>], RenderDepth)
       IN  /\ image' = Canvas_set_color(image, x, y, color)
           /\ written' = IF Canvas_stores(image, x, y)
                         THEN written \cup {<<x, y>>}
                         ELSE written
           /\ cursor' = IF x + 1 \in RenderCols THEN <<x + 1, y>> ELSE <<0, y + 1>>
    /\ world' = World_after_color_at(world)
    /\ UNCHANGED <<pc, camera, visible, canvases,
                   engineVars, vecVars, matVars, transform, compVars, traceVars, shadowVars, solid, loaderVars, wnormal, shadeVars, contextVars, lnormal,
                   lightingVars, patternVars, sceneVars, walk, litVars>>

\* The loops are over: return image.
RenderReturn ==
    /\ pc = "rendering"
    /\ ~(cursor[1] \in RenderCols /\ cursor[2] \in RenderRows)
    /\ canvases' = Append(canvases, image)
    /\ pc' = "returned"
    /\ UNCHANGED <<camera, world, visible, image, cursor, written,
                   engineVars, vecVars, matVars, transform, compVars, traceVars, shadowVars, solid, loaderVars, wnormal, shadeVars, contextVars, lnormal,
                   lightingVars, patternVars, sceneVars, walk, litVars>>

NextRender == RenderStart \/ RenderPixel \/ RenderReturn

SpecRender == InitRender /\ [][NextRender]_vars

(***************************************************************************)
(* world.rs: intersect_world and is_shadowed.  The points and the light    *)
(* positions have integer coordinates; a shadow ray is a ray over the      *)
(* denominator RayDen, its direction the normalised vector rounded toward  *)
(* zero.  A result that is a panic of the program is None.                 *)
(***************************************************************************)
RayDen == Scale \div 10

\* a / b for b > 0, rounded toward zero
TruncDiv(a, b) == IF a < 0 THEN -((-a) \div b) ELSE a \div b

\* Vec4::magnitude of an integer vector, in units of 1/Scale
Vec4_magnitude(v) == Sqrt((v.x * v.x + v.y * v.y + v.z * v.z + v.w * v.w) * Scale * Scale)

Vec4_is_nan(v) == IsNaN(v.x) \/ IsNaN(v.y) \/ IsNaN(v.z) \/ IsNaN(v.w)

\* Vec4::normalize of an integer vector, over the denominator unit.  A
\* vector of magnitude 0 gives 0.0 / 0.0 in all four elements.
Vec4_normalize_to(v, unit) ==
    IF Vec4_magnitude(v) = 0 THEN Vec4_raw(NaN, NaN, NaN, NaN)
    ELSE Vec4_raw(TruncDiv(v.x * unit * Scale, Vec4_magnitude(v)),
                  TruncDiv(v.y * unit * Scale, Vec4_magnitude(v)),
                  TruncDiv(v.z * unit * Scale, Vec4_magnitude(v)),
                  TruncDiv(v.w * unit * Scale, Vec4_magnitude(v)))

\* Vec4::normalize over the denominator RayDen
Vec4_normalize(v) == Vec4_normalize_to(v, RayDen)

\* Ray::new(point, direction) for an integer point and a direction over RayDen
Ray_from(p, direction) ==
    [origin |-> Vec4_raw(p.x * RayDen, p.y * RayDen, p.z * RayDen, p.w * RayDen),
     direction |-> direction, den |-> RayDen]

\* Intersection::intersect for a sphere.  A direction of NaNs makes a, b and
\* the discriminant NaN: discriminant < 0.0 is false and both roots are NaN.
Intersection_intersect(shape, r) ==
    IF Vec4_is_nan(r.direction)
    THEN << Intersection_new(SphereId, NaN), Intersection_new(SphereId, NaN) >>
    ELSE Sphere_local_intersect(Ray_transform(r, Matrix4x4_invert(shape.transform)[1]))

RECURSIVE ExtendFrom(_, _, _)
\* intersect_world: for shape in &self.objects { xs.extend(inter) }
ExtendFrom(w, r, i) ==
    IF i > Len(w.objects) THEN <<>>
    ELSE Intersection_intersect(w.objects[i], r) \o ExtendFrom(w, r, i + 1)

\* sort_by(|a, b| a.t.partial_cmp(&b.t).unwrap()) panics when it compares a
\* NaN, which it does as soon as the list has two entries and a NaN.
Sort_panics(s) == Len(s) >= 2 /\ \E i \in 1..Len(s) : IsNaN(s[i].t)

\* intersect_world: xs.sort_by(..); return xs
World_sort(s) == IF Sort_panics(s) THEN None ELSE Some(SortByT(s))

\* World::intersect_world
World_intersect_world(w, r) == World_sort(ExtendFrom(w, r, 1))

\* The ray is_shadowed casts from the point toward a light.
ShadowRay(light, p) == Ray_from(p, Vec4_normalize(Vec4_sub(light.position, p)))

\* is_shadowed, one light: Some(hit) = Intersection::hit(..) and hit.t < distance
ShadowTest(inter_world, distance) ==
    \E hit \in {Hit_result(inter_world)} : hit # None /\ FLt(hit[1].t, distance)

\* The loop of is_shadowed at one light, given what intersect_world returned
\* for its ray and what the loop does from the next light on.
ShadowStep(inter_world, distance, rest) ==
    IF inter_world = None THEN "panic"
    ELSE IF ShadowTest(inter_world[1], distance) THEN "true"
    ELSE rest

RECURSIVE IsShadowedFrom(_, _, _)
\* The loop of is_shadowed from the i-th light on.
IsShadowedFrom(w, p, i) ==
    IF i > Len(w.lights) THEN "false"
    ELSE ShadowStep(World_intersect_world(w, ShadowRay(w.lights[i], p)),
                    Vec4_magnitude(Vec4_sub(w.lights[i].position, p)),
                    IsShadowedFrom(w, p, i + 1))

\* World::is_shadowed
World_is_shadowed(w, p) == IsShadowedFrom(w, p, 1)

ShadowCoords == {-20, -10, 0, 10}

ShadowPoints == { Vec4_point(x, y, z) : x \in ShadowCoords, y \in ShadowCoords, z \in ShadowCoords }

\* Light::point_light at the default light's position and at its mirror image
Lights ==
    { [intensity |-> Color_new(1000, 1000, 1000), position |-> Vec4_point(-10, 10, -10)],
      [intensity |-> Color_new(1000, 1000, 1000), position |-> Vec4_point(10, -10, 10)] }

LightLists == {<<>>} \cup { <<a>> : a \in Lights } \cup { <<a, b>> : a \in Lights, b \in Lights }

InitShadow ==
    /\ pc = "start"
    /\ point \in ShadowPoints
    /\ shadowed = "pending"
    /\ world \in { [World_default EXCEPT !.lights = ls] : ls \in LightLists }
    /\ camera = [hsize |-> 0, vsize |-> 0]
    /\ visible = <<>>
    /\ image = [width |-> 0, height |-> 0, buffer |-> <<>>]
    /\ cursor = <<0, 0>>
    /\ written = {}
    /\ canvases = <<>>
    /\ EngineIdle
    /\ VecIdle
    /\ MatIdle
    /\ ShapeIdle
    /\ CompIdle
    /\ TraceIdle
    /\ SolidIdle
    /\ LoaderIdle
    /\ NormalIdle
    /\ ShadeIdle
    /\ ContextIdle
    /\ LocalNormalIdle
    /\ LightingIdle
    /\ PatternIdle
    /\ SceneIdle
    /\ WalkIdle
    /\ LitIdle

\* self.is_shadowed(&point)
IsShadowed ==
    /\ pc = "start"
    /\ shadowed' = World_is_shadowed(world, point)
    /\ pc' = "done"
    /\ UNCHANGED <<point, engineVars, vecVars, matVars, transform, compVars, traceVars, renderVars, solid, loaderVars, wnormal, shadeVars, contextVars, lnormal, lightingVars, patternVars, sceneVars, walk, litVars>>

NextShadow == IsShadowed

SpecShadow == InitShadow /\ [][NextShadow]_vars

(***************************************************************************)
(* shape.rs, model.rs: local_intersect of the plane, the cube, the         *)
(* cylinder and the triangle, for rays of integer origin and direction,    *)
(* and intersect_world on a world of one such shape.  f32::INFINITY is the *)
(* model value Inf, the largest number below NaN.                          *)
(***************************************************************************)
Inf == NaN - 1

\* n * f32::INFINITY for a finite n: 0.0 * INFINITY is NaN
MulInf(n) == IF n > 0 THEN Inf ELSE IF n < 0 THEN -Inf ELSE NaN

\* a / b for b # 0, rounded toward zero
FDivInt(a, b) == IF b > 0 THEN TruncDiv(a, b) ELSE TruncDiv(-a, -b)

ShapeId == SphereId

Vec4_cross(a, b) ==
    Vec4_vector(a.y * b.z - a.z * b.y, a.z * b.x - a.x * b.z, a.x * b.y - a.y * b.x)

\* Plane::local_intersect
Plane_local_intersect(r) ==
    IF EqualsZero(r.direction.y, r.den) THEN <<>>
    ELSE << Intersection_new(ShapeId, FDivInt((-r.origin.y) * Scale, r.direction.y)) >>

\* Cube::check_axis: (tmin, tmax) in units of 1/Scale
Cube_check_axis(origin, direction) ==
    LET tmin_numerator == -1 - origin
        tmax_numerator == 1 - origin
        tmin == IF ~EqualsZero(direction, 1)
                THEN FDivInt(tmin_numerator * Scale, direction)
                ELSE MulInf(tmin_numerator)
        tmax == IF ~EqualsZero(direction, 1)
                THEN FDivInt(tmax_numerator * Scale, direction)
                ELSE MulInf(tmax_numerator)
    IN IF FGt(tmin, tmax) THEN <<tmax, tmin>> ELSE <<tmin, tmax>>

RECURSIVE MaxFrom(_, _, _)
MaxFrom(arr, i, max) ==
    IF i > Len(arr) THEN max
    ELSE MaxFrom(arr, i + 1, IF FGt(arr[i], max) THEN arr[i] ELSE max)

\* util::max_f32 of a non-empty array
Max_f32(arr) == MaxFrom(arr, 2, arr[1])

RECURSIVE MinFrom(_, _, _)
MinFrom(arr, i, min) ==
    IF i > Len(arr) THEN min
    ELSE MinFrom(arr, i + 1, IF FLt(arr[i], min) THEN arr[i] ELSE min)

\* util::min_f32 of a non-empty array
Min_f32(arr) == MinFrom(arr, 2, arr[1])

\* Cube::local_intersect
Cube_local_intersect(r) ==
    LET xt == Cube_check_axis(r.origin.x, r.direction.x)
        yt == Cube_check_axis(r.origin.y, r.direction.y)
        zt == Cube_check_axis(r.origin.z, r.direction.z)
        tmin == Max_f32(<<xt[1], yt[1], zt[1]>>)
        tmax == Min_f32(<<xt[2], yt[2], zt[2]>>)
    IN IF FGt(tmin, tmax) THEN <<>>
       ELSE << Intersection_new(ShapeId, tmin), Intersection_new(ShapeId, tmax) >>

\* Cylinder::check_cap for t in units of 1/Scale
Cylinder_check_cap(r, t) ==
    LET x == r.origin.x * Scale + t * r.direction.x
        z == r.origin.z * Scale + t * r.direction.z
    IN x * x + z * z <= Scale * Scale

\* Cylinder::intersect_caps
Cylinder_intersect_caps(cyl, r) ==
    IF ~cyl.closed \/ EqualsZero(r.direction.y, 1) THEN <<>>
    ELSE LET tlow == FDivInt((cyl.minimum - r.origin.y) * Scale, r.direction.y)
             thigh == FDivInt((cyl.maximum - r.origin.y) * Scale, r.direction.y)
         IN (IF Cylinder_check_cap(r, tlow) THEN << Intersection_new(ShapeId, tlow) >> ELSE <<>>)
            \o (IF Cylinder_check_cap(r, thigh) THEN << Intersection_new(ShapeId, thigh) >> ELSE <<>>)

\* A local_intersect that still looks at the caps when the ray is parallel
\* to the axis.
Cylinder_local_intersect_caps_always(cyl, r) ==
    LET a == r.direction.x * r.direction.x + r.direction.z * r.direction.z
        b == 2 * r.origin.x * r.direction.x + 2 * r.origin.z * r.direction.z
        c == r.origin.x * r.origin.x + r.origin.z * r.origin.z - 1
        disc == b * b - 4 * a * c
        ta == ((-b) * Scale - Sqrt(disc * Scale * Scale)) \div (2 * a)
        tb == ((-b) * Scale + Sqrt(disc * Scale * Scale)) \div (2 * a)
        t0 == IF ta > tb THEN tb ELSE ta
        t1 == IF ta > tb THEN ta ELSE tb
        y0 == r.origin.y * Scale + t0 * r.direction.y
        y1 == r.origin.y * Scale + t1 * r.direction.y
    IN IF EqualsZero(a, 1) THEN Cylinder_intersect_caps(cyl, r)
       ELSE IF disc < 0 THEN <<>>
       ELSE (IF cyl.minimum * Scale < y0 /\ y0 < cyl.maximum * Scale
             THEN << Intersection_new(ShapeId, t0) >> ELSE <<>>)
            \o (IF cyl.minimum * Scale < y1 /\ y1 < cyl.maximum * Scale
                THEN << Intersection_new(ShapeId, t1) >> ELSE <<>>)
            \o Cylinder_intersect_caps(cyl, r)

\* Cylinder::local_intersect
Cylinder_local_intersect(cyl, r) ==
    LET a == r.direction.x * r.direction.x + r.direction.z * r.direction.z
        b == 2 * r.origin.x * r.direction.x + 2 * r.origin.z * r.direction.z
        c == r.origin.x * r.origin.x + r.origin.z * r.origin.z - 1
        disc == b * b - 4 * a * c
        ta == ((-b) * Scale - Sqrt(disc * Scale * Scale)) \div (2 * a)
        tb == ((-b) * Scale + Sqrt(disc * Scale * Scale)) \div (2 * a)
        t0 == IF ta > tb THEN tb ELSE ta
        t1 == IF ta > tb THEN ta ELSE tb
        y0 == r.origin.y * Scale + t0 * r.direction.y
        y1 == r.origin.y * Scale + t1 * r.direction.y
    IN IF EqualsZero(a, 1) THEN <<>>
       ELSE IF disc < 0 THEN <<>>
       ELSE (IF cyl.minimum * Scale < y0 /\ y0 < cyl.maximum * Scale
             THEN << Intersection_new(ShapeId, t0) >> ELSE <<>>)
            \o (IF cyl.minimum * Scale < y1 /\ y1 < cyl.maximum * Scale
                THEN << Intersection_new(ShapeId, t1) >> ELSE <<>>)
            \o Cylinder_intersect_caps(cyl, r)

\* Triangle::local_intersect.  u and v are the fractions un / det and
\* vn / det; their tests are made on the numerators.
Triangle_local_intersect(tri, r) ==
    LET e1 == Vec4_sub(tri.p2, tri.p1)
        e2 == Vec4_sub(tri.p3, tri.p1)
        dir_cross_e2 == Vec4_cross(r.direction, e2)
        det == Vec4_dot(e1, dir_cross_e2)
        p1_to_origin == Vec4_sub(r.origin, tri.p1)
        un == Vec4_dot(p1_to_origin, dir_cross_e2)
        origin_cross_e1 == Vec4_cross(p1_to_origin, e1)
        vn == Vec4_dot(r.direction, origin_cross_e1)
    IN IF EqualsZero(det, 1) THEN <<>>
       ELSE IF un * det < 0 \/ Abs(un) > Abs(det) THEN <<>>
       ELSE IF vn * det < 0 \/ (un + vn) * det > det * det THEN <<>>
       ELSE << Intersection_new(ShapeId,
                    FDivInt(Vec4_dot(e2, origin_cross_e1) * Scale, det)) >>

\* shape.local_intersect(&ray), by the variant of the shape
Shape_local_intersect(obj, r) ==
    IF obj.kind = "Plane" THEN Plane_local_intersect(r)
    ELSE IF obj.kind = "Cube" THEN Cube_local_intersect(r)
    ELSE IF obj.kind = "Cylinder" THEN Cylinder_local_intersect(obj, r)
    ELSE Triangle_local_intersect(obj, r)

NoPoint == Vec4_raw(0, 0, 0, 0)

\* Plane::new, Cube::new, Cylinder::new(material, 1.0, 2.0, closed) and
\* Triangle::new(material, (0,1,0), (-1,0,0), (1,0,0)); transform: identity
Shapes ==
    { [kind |-> "Plane", minimum |-> 0, maximum |-> 0, closed |-> FALSE,
       p1 |-> NoPoint, p2 |-> NoPoint, p3 |-> NoPoint],
      [kind |-> "Cube", minimum |-> 0, maximum |-> 0, closed |-> FALSE,
       p1 |-> NoPoint, p2 |-> NoPoint, p3 |-> NoPoint],
      [kind |-> "Cylinder", minimum |-> 1, maximum |-> 2, closed |-> FALSE,
       p1 |-> NoPoint, p2 |-> NoPoint, p3 |-> NoPoint],
      [kind |-> "Cylinder", minimum |-> 1, maximum |-> 2, closed |-> TRUE,
       p1 |-> NoPoint, p2 |-> NoPoint, p3 |-> NoPoint],
      [kind |-> "Triangle", minimum |-> 0, maximum |-> 0, closed |-> FALSE,
       p1 |-> Vec4_point(0, 1, 0), p2 |-> Vec4_point(-1, 0, 0), p3 |-> Vec4_point(1, 0, 0)] }

\* The rays that have a direction.
ProperRays == { r \in Rays : r.direction # Vec4_vector(0, 0, 0) }

InitDegenerate ==
    /\ pc = "start"
    /\ solid \in Shapes
    /\ EngineIdle
    /\ VecIdle
    /\ MatIdle
    /\ ShapeIdle
    /\ CompIdle
    /\ TraceIdle
    /\ RenderIdle
    /\ ShadowIdle
    /\ LoaderIdle
    /\ NormalIdle
    /\ ShadeIdle
    /\ ContextIdle
    /\ LocalNormalIdle
    /\ LightingIdle
    /\ PatternIdle
    /\ SceneIdle
    /\ WalkIdle
    /\ LitIdle

\* world.intersect_world(ray) on the world whose one object is the shape:
\* Intersection::intersect with the inverse of the identity, then the sort.
IntersectShape ==
    /\ pc = "start"
    /\ \E r \in ProperRays, inverse \in { Matrix4x4_invert(Matrix4x4_identity) } :
        \E sorted \in { World_sort(Shape_local_intersect(solid,
                            Ray_transform(r, inverse[1]))) } :
            /\ ray' = Some(r)
            /\ IF sorted = None
               THEN /\ pc' = "panicked"
                    /\ UNCHANGED <<xs, inter>>
               ELSE /\ pc' = "listed"
                    /\ xs' = sorted[1]
                    /\ inter' = sorted[1]
    /\ UNCHANGED <<hitRes, solid, vecVars, matVars, transform, compVars, traceVars, renderVars, shadowVars, loaderVars, wnormal, shadeVars, contextVars, lnormal, lightingVars, patternVars, sceneVars, walk, litVars>>

NextDegenerate == IntersectShape

SpecDegenerate == InitDegenerate /\ [][NextDegenerate]_vars

(***************************************************************************)
(* model.rs: Model::process_obj_file.  A file is the number of its v       *)
(* lines, the number of its vn lines and the list of its f lines.  An f    *)
(* line is a list of tokens and a token the list of its pieces between the *)
(* slashes: numbers, or EmptyPiece for the empty string.  A panic of the   *)
(* loader is None.                                                         *)
(***************************************************************************)
EmptyPiece == -1

\* usize::MAX, what 0 - 1 wraps to without overflow checks
UsizeMax == 999999

\* The token of one vertex in each notation of the OBJ format, with the same
\* index for the vertex, the texture and the normal.
Token(format, i) ==
    IF format = "v" THEN <<i>>
    ELSE IF format = "v/t" THEN <<i, i>>
    ELSE IF format = "v//n" THEN <<i, EmptyPiece, i>>
    ELSE <<i, i, i>>

Formats == {"v", "v/t", "v//n", "v/t/n"}

\* An f line of n tokens: all of index i but the last, of index last.
FaceLine(format, n, i, last) ==
    [k \in 1..n |-> Token(format, IF k = n THEN last ELSE i)]

RECURSIVE Pieces(_)
\* tokens[1..].join("/").split("/")
Pieces(line) ==
    IF line = <<>> THEN <<>> ELSE Head(line) \o Pieces(Tail(line))

\* s.parse::<usize>().unwrap() - 1 panics on "", and on 0 when overflow is
\* checked; None is the panic.
ParsePiece(piece, checks) ==
    IF piece = EmptyPiece THEN None
    ELSE IF piece = 0 THEN (IF checks THEN None ELSE Some(UsizeMax))
    ELSE Some(piece - 1)

\* body, or None if a piece panics
Body(line, checks) ==
    IF \E k \in 1..Len(Pieces(line)) : ParsePiece(Pieces(line)[k], checks) = None
    THEN None
    ELSE Some([k \in 1..Len(Pieces(line)) |-> ParsePiece(Pieces(line)[k], checks)[1]])

\* The f branch: face = [body[0], body[3], body[6]] and
\* fnormal = [body[2], body[5], body[8]]; an index past the end panics.
ParseFace(line, checks) ==
    IF Body(line, checks) = None THEN None
    ELSE IF Len(Body(line, checks)[1]) < 9 THEN None
    ELSE Some([face |-> << Body(line, checks)[1][1], Body(line, checks)[1][4],
                           Body(line, checks)[1][7] >>,
               fnormal |-> << Body(line, checks)[1][3], Body(line, checks)[1][6],
                              Body(line, checks)[1][9] >>])

\* SmoothTriangle::new from verts[face[..]] and vert_normals[normal[..]];
\* a Vec index out of range panics.
SmoothTriangleOf(file, face, normal) ==
    IF \E k \in 1..3 : face[k] >= file.verts \/ normal[k] >= file.vert_normals
    THEN None
    ELSE Some([kind |-> "SmoothTriangle", p |-> face, n |-> normal])

\* Triangle::new from verts[face[..]]
TriangleOf(file, face) ==
    IF \E k \in 1..3 : face[k] >= file.verts THEN None
    ELSE Some([kind |-> "Triangle", p |-> face, n |-> <<>>])

\* The loops that build the children, given the parsed faces: the smooth
\* loop if face_normals.len() > 0, the flat loop otherwise.
BuildTriangles(file, parsed) ==
    LET built == [i \in 1..Len(parsed) |->
                    IF Len(parsed) > 0
                    THEN SmoothTriangleOf(file, parsed[i].face, parsed[i].fnormal)
                    ELSE TriangleOf(file, parsed[i].face)]
    IN IF \E i \in 1..Len(parsed) : built[i] = None THEN None
       ELSE Some([i \in 1..Len(parsed) |-> built[i][1]])

\* Model::process_obj_file
Process_obj_file(file, checks) ==
    IF \E i \in 1..Len(file.faces) : ParseFace(file.faces[i], checks) = None
    THEN None
    ELSE BuildTriangles(file, [i \in 1..Len(file.faces) |-> ParseFace(file.faces[i], checks)[1]])

FaceLines ==
    { FaceLine(f, n, i, last) : f \in Formats, n \in 3..MaxTokens,
                                i \in 0..MaxIndex, last \in 0..MaxIndex }

\* The files: no f line, one f line, or two f lines in one notation, the
\* second a triangle of one index.
FaceLists ==
    {<<>>} \cup { <<l>> : l \in FaceLines }
    \cup UNION { { << FaceLine(f, n, i, last), FaceLine(f, 3, j, j) >> :
                     n \in 3..MaxTokens, i \in 0..MaxIndex, last \in 0..MaxIndex,
                     j \in 0..MaxIndex } : f \in Formats }

Files ==
    { [verts |-> v, vert_normals |-> vn, faces |-> fl] :
        v \in 1..MaxIndex, vn \in 0..MaxIndex, fl \in FaceLists }

InitLoader ==
    /\ pc = "start"
    /\ mesh \in Files
    /\ overflow_checks \in BOOLEAN
    /\ triangles = None
    /\ EngineIdle
    /\ VecIdle
    /\ MatIdle
    /\ ShapeIdle
    /\ CompIdle
    /\ TraceIdle
    /\ RenderIdle
    /\ ShadowIdle
    /\ SolidIdle
    /\ NormalIdle
    /\ ShadeIdle
    /\ ContextIdle
    /\ LocalNormalIdle
    /\ LightingIdle
    /\ PatternIdle
    /\ SceneIdle
    /\ WalkIdle
    /\ LitIdle

\* Model::new(material, file_path)
ModelNew ==
    /\ pc = "start"
    /\ triangles' = Process_obj_file(mesh, overflow_checks)
    /\ pc' = IF triangles' = None THEN "panicked" ELSE "loaded"
    /\ UNCHANGED <<mesh, overflow_checks, engineVars, vecVars, matVars, transform,
                   compVars, traceVars, renderVars, shadowVars, solid, wnormal, shadeVars, contextVars, lnormal, lightingVars, patternVars, sceneVars, walk, litVars>>

NextLoader == ModelNew

SpecLoader == InitLoader /\ [][NextLoader]_vars

(***************************************************************************)
(* shape.rs, model.rs: local_normal_at and world_normal_at.  A point is in *)
(* homogeneous integer coordinates: [x, y, z, w] with w > 0 stands for the *)
(* point (x / w, y / w, z / w).  A normal is an integer vector over some   *)
(* denominator, which the final normalize removes: the value returned is   *)
(* over Scale.                                                             *)
(***************************************************************************)
\* Sphere::local_normal_at
Sphere_local_normal_at(lp) ==
    Vec4_normalize(Vec4_sub(lp, Vec4_raw(0, 0, 0, lp.w)))

\* Plane::local_normal_at
Plane_local_normal_at(lp) == Vec4_vector(0, 1, 0)

\* Cube::local_normal_at
Cube_local_normal_at(lp) ==
    LET maxc == Max_f32(<<Abs(lp.x), Abs(lp.y), Abs(lp.z)>>)
    IN IF maxc = Abs(lp.x) THEN Vec4_vector(lp.x, 0, 0)
       ELSE IF maxc = Abs(lp.y) THEN Vec4_vector(0, lp.y, 0)
       ELSE Vec4_vector(0, 0, lp.z)

\* A local_normal_at whose second cap test compares y with the minimum.
Cylinder_local_normal_at_by_minimum(cyl, lp) ==
    LET dist_below_1 == lp.x * lp.x + lp.z * lp.z < lp.w * lp.w
        y_at_maximum == lp.y * ThresholdInv >= cyl.maximum * lp.w * ThresholdInv - lp.w
        y_at_minimum == lp.y * ThresholdInv <= cyl.minimum * lp.w * ThresholdInv + lp.w
    IN IF dist_below_1 /\ y_at_maximum THEN Vec4_vector(0, 1, 0)
       ELSE IF dist_below_1 /\ y_at_minimum THEN Vec4_vector(0, -1, 0)
       ELSE Vec4_vector(lp.x, 0, lp.z)

\* Cylinder::local_normal_at.  Both cap tests of the code compare y with
\* maximum - THRESHOLD_F32, so the second never succeeds.
Cylinder_local_normal_at(cyl, lp) ==
    LET dist_below_1 == lp.x * lp.x + lp.z * lp.z < lp.w * lp.w
        y_at_maximum == lp.y * ThresholdInv >= cyl.maximum * lp.w * ThresholdInv - lp.w
    IN IF dist_below_1 /\ y_at_maximum THEN Vec4_vector(0, 1, 0)
       ELSE IF dist_below_1 /\ y_at_maximum THEN Vec4_vector(0, -1, 0)
       ELSE Vec4_vector(lp.x, 0, lp.z)

\* Triangle::new: normal = (e2.cross(&e1)).normalize(); local_normal_at
\* returns it.
Triangle_local_normal_at(tri, lp) ==
    Vec4_normalize(Vec4_cross(Vec4_sub(tri.p3, tri.p1), Vec4_sub(tri.p2, tri.p1)))

RECURSIVE ModelNormalFrom(_, _, _)
\* Model::local_normal_at from the i-th triangle on: a ray from the point
\* with direction (0, 0, 0) is cast at each triangle, and the first one it
\* hits gives the normal.
ModelNormalFrom(tris, lp, i) ==
    IF i > Len(tris) THEN Vec4_vector(0, 0, 0)
    ELSE IF Len(Triangle_local_intersect(tris[i],
                [origin |-> lp, direction |-> Vec4_vector(0, 0, 0), den |-> lp.w])) > 0
         THEN Triangle_local_normal_at(tris[i], lp)
         ELSE ModelNormalFrom(tris, lp, i + 1)

\* A Model whose triangles are the one flat triangle of Shapes.
ModelShape ==
    [kind |-> "Model", minimum |-> 0, maximum |-> 0, closed |-> FALSE,
     p1 |-> Vec4_point(0, 1, 0), p2 |-> Vec4_point(-1, 0, 0), p3 |-> Vec4_point(1, 0, 0)]

SphereShape ==
    [kind |-> "Sphere", minimum |-> 0, maximum |-> 0, closed |-> FALSE,
     p1 |-> NoPoint, p2 |-> NoPoint, p3 |-> NoPoint]

\* shape.local_normal_at(&local_point, i), by the variant of the shape
Shape_local_normal_at(obj, lp) ==
    IF obj.kind = "Sphere" THEN Sphere_local_normal_at(lp)
    ELSE IF obj.kind = "Plane" THEN Plane_local_normal_at(lp)
    ELSE IF obj.kind = "Cube" THEN Cube_local_normal_at(lp)
    ELSE IF obj.kind = "Cylinder" THEN Cylinder_local_normal_at(obj, lp)
    ELSE IF obj.kind = "Triangle" THEN Triangle_local_normal_at(obj, lp)
    ELSE ModelNormalFrom(<<obj>>, lp, 1)

\* world_normal_at, the same code in every variant, given the inverse of
\* the transform.  Arithmetic on a NaN gives NaN.
World_normal_with(obj, inverse, world_point) ==
    LET local_point == Matrix4x4_mul_vec(inverse.n, world_point)
        local_normal == Shape_local_normal_at(obj, local_point)
        world_normal == Matrix4x4_mul_vec(Matrix4x4_transpose(inverse.n), local_normal)
    IN IF Vec4_is_nan(local_normal) THEN Vec4_raw(NaN, NaN, NaN, NaN)
       ELSE Vec4_normalize_to(Vec4_vector(world_normal.x, world_normal.y, world_normal.z), Scale)

\* world_normal_at: None if invert panics
World_normal_at(obj, t, world_point) ==
    IF Matrix4x4_invert(t) = None THEN None
    ELSE Some(World_normal_with(obj, Matrix4x4_invert(t)[1], world_point))

\* Points of the shape in its own space; for a cylinder also the points
\* (0.5, y, 0) of its two cap planes.
SurfacePoints(obj) ==
    IF obj.kind = "Sphere"
    THEN { Vec4_point(x, y, z) : x \in -1..1, y \in -1..1, z \in -1..1 }
           \cap { q \in [x : -1..1, y : -1..1, z : -1..1, w : {1}] :
                    q.x * q.x + q.y * q.y + q.z * q.z = 1 }
    ELSE IF obj.kind = "Plane"
    THEN { Vec4_point(x, 0, z) : x \in -1..1, z \in -1..1 }
    ELSE IF obj.kind = "Cube"
    THEN { q \in [x : -1..1, y : -1..1, z : -1..1, w : {1}] :
                Abs(q.x) = 1 \/ Abs(q.y) = 1 \/ Abs(q.z) = 1 }
    ELSE IF obj.kind = "Cylinder"
    THEN { q \in [x : -1..1, y : {obj.minimum, obj.maximum}, z : -1..1, w : {1}] :
                q.x * q.x + q.z * q.z = 1 \/ (obj.closed /\ q.x = 0 /\ q.z = 0) }
         \cup { Vec4_raw(1, 2 * y, 0, 2) : y \in {obj.minimum, obj.maximum} }
    ELSE { obj.p1, obj.p2, obj.p3, Vec4_point(0, 0, 0) }

\* Invertible transforms: the identity, a translation, a non-uniform
\* scale and scale(1, 0.5, 1).
NormalTransforms ==
    { Matrix4x4_identity, Matrix4x4_translation(0, 1, 0, 1),
      Matrix4x4_scale(1, 2, 3, 1), Matrix4x4_scale(10, 5, 10, 10) }

InitNormal ==
    /\ pc = "start"
    /\ solid \in Shapes \cup {SphereShape, ModelShape}
    /\ transform \in NormalTransforms
    /\ \E lp \in SurfacePoints(solid) : point = Matrix4x4_mul_vec(transform.n, lp)
    /\ shadowed = "pending"
    /\ wnormal = None
    /\ EngineIdle
    /\ VecIdle
    /\ MatIdle
    /\ CompIdle
    /\ TraceIdle
    /\ RenderIdle
    /\ LoaderIdle
    /\ ShadeIdle
    /\ ContextIdle
    /\ lnormal = None
    /\ LightingIdle
    /\ PatternIdle
    /\ SceneIdle
    /\ WalkIdle
    /\ LitIdle

\* The local_point of world_normal_at, given the inverse of the transform
Local_point_with(inverse, world_point) == Matrix4x4_mul_vec(inverse.n, world_point)

\* shape.world_normal_at(&world_point, i).  The local normal is kept over
\* the denominator of the local point.
WorldNormalAt ==
    /\ pc = "start"
    /\ \E inverse \in {Matrix4x4_invert(transform)} :
        IF inverse = None
        THEN /\ wnormal' = None
             /\ lnormal' = None
             /\ pc' = "panicked"
        ELSE /\ lnormal' = Some(Shape_local_normal_at(solid,
                                    Local_point_with(inverse[1], point)))
             /\ wnormal' = Some(World_normal_with(solid, inverse[1], point))
             /\ pc' = "done"
    /\ UNCHANGED <<solid, transform, engineVars, vecVars, matVars, compVars, traceVars,
                   renderVars, shadowVars, loaderVars, shadeVars, contextVars, lightingVars, patternVars, sceneVars, walk, litVars>>

NextNormal == WorldNormalAt

SpecNormal == InitNormal /\ [][NextNormal]_vars

(***************************************************************************)
(* world.rs shade_hit, reflected_color, refracted_color and                *)
(* intersection.rs Comp::schlick.  Colours, coefficients and cosines are   *)
(* in thousandths, refraction indices in tenths, vectors over Scale.  What *)
(* the rest of the World answers is an input: the value lighting returns   *)
(* for each light in and out of shadow, what is_shadowed returns and what  *)
(* color_at returns for a reflected and for a refracted ray; None stands   *)
(* for a call that panics.                                                 *)
(***************************************************************************)
\* Color * f32
Color_scale(c, k) == <<(c[1] * k) \div 1000, (c[2] * k) \div 1000, (c[3] * k) \div 1000>>

\* Vec4 * f32, for a factor in thousandths
Vec4_scale(v, k) ==
    Vec4_raw(TruncDiv(v.x * k, 1000), TruncDiv(v.y * k, 1000),
             TruncDiv(v.z * k, 1000), TruncDiv(v.w * k, 1000))

\* comp.eyev.dot(&comp.normalv), in thousandths
Cos_i(c) == TruncDiv(Vec4_dot(c.eyev, c.normalv) * 1000, Scale * Scale)

\* sin2_t > 1.0 for sin2_t = n * n * (1.0 - cos * cos), n = n1 / n2
Sin2_t_above_1(c) ==
    c.n1 * c.n1 * (1000000 - Cos_i(c) * Cos_i(c)) > c.n2 * c.n2 * 1000000

\* sin2_t in millionths
Sin2_t(c) == (c.n1 * c.n1 * (1000000 - Cos_i(c) * Cos_i(c))) \div (c.n2 * c.n2)

\* (1.0 - sin2_t).sqrt(), in thousandths
Cos_t(c) == SqrtSearch(1000000 - Sin2_t(c), 0, 1000)

\* x.powi(5) for x in thousandths
Powi5(x) == (((((x * x) \div 1000) * ((x * x) \div 1000)) \div 1000) * x) \div 1000

\* Comp::schlick
Comp_schlick(c) ==
    LET r0 == ((((c.n1 - c.n2) * 1000) \div (c.n1 + c.n2))
                * (((c.n1 - c.n2) * 1000) \div (c.n1 + c.n2))) \div 1000
        cos == IF c.n1 > c.n2 THEN Cos_t(c) ELSE Cos_i(c)
    IN IF c.n1 > c.n2 /\ Sin2_t_above_1(c) THEN 1000
       ELSE r0 + ((1000 - r0) * Powi5(1000 - cos)) \div 1000

\* material.lighting(.., shadowed) for one light: ambient alone in shadow,
\* ambient + diffuse + specular out of it.
Lighting(light, in_shadow) == IF in_shadow THEN light.ambient ELSE light.full

RECURSIVE LightingFrom(_, _, _)
\* for light in &self.lights { color = color + c }, from the i-th light on
LightingFrom(lights, in_shadow, i) ==
    IF i > Len(lights) THEN Black
    ELSE Color_add(Lighting(lights[i], in_shadow), LightingFrom(lights, in_shadow, i + 1))

\* The outcome of reflected_color or refracted_color: the colour returned
\* (None for a panic inside color_at) and the color_at calls made.
Outcome(value, casts) == [value |-> value, casts |-> casts]

ColorAtCall(origin, direction, remaining) ==
    [origin |-> origin, direction |-> direction, remaining |-> remaining]

\* A reflected_color that hands its own remaining to color_at.
Reflected_color_same_remaining(c, remaining, answer) ==
    IF Reflected_color_returns_black(c.material, remaining)
    THEN Outcome(Some(Black), <<>>)
    ELSE Outcome(IF answer = None THEN None
                 ELSE Some(Color_scale(answer[1], c.material.reflective)),
                 << ColorAtCall(c.over_point, c.reflectv, remaining) >>)

\* World::reflected_color; answer is what color_at returns for the ray.
Reflected_color(c, remaining, answer) ==
    IF Reflected_color_returns_black(c.material, remaining)
    THEN Outcome(Some(Black), <<>>)
    ELSE Outcome(IF answer = None THEN None
                 ELSE Some(Color_scale(answer[1], c.material.reflective)),
                 << ColorAtCall(c.over_point, c.reflectv, remaining - 1) >>)

\* normalv * (n_ratio * cos_i - cos_t) - eyev * n_ratio
Refract_direction(c) ==
    Vec4_sub(Vec4_scale(c.normalv, TruncDiv(c.n1 * Cos_i(c), c.n2) - Cos_t(c)),
             Vec4_scale(c.eyev, (c.n1 * 1000) \div c.n2))

\* A refracted_color without the test for total internal reflection: the
\* square root of a negative number is NaN and so is the direction.
Refracted_color_without_tir(c, remaining, answer) ==
    IF Refracted_color_returns_black(c.material, remaining)
    THEN Outcome(Some(Black), <<>>)
    ELSE Outcome(IF answer = None THEN None
                 ELSE Some(Color_scale(answer[1], c.material.transparency)),
                 << ColorAtCall(c.under_point,
                                IF Sin2_t_above_1(c) THEN Vec4_raw(NaN, NaN, NaN, NaN)
                                ELSE Refract_direction(c),
                                remaining - 1) >>)

\* World::refracted_color; answer is what color_at returns for the ray.
Refracted_color(c, remaining, answer) ==
    IF Refracted_color_returns_black(c.material, remaining)
    THEN Outcome(Some(Black), <<>>)
    ELSE IF Sin2_t_above_1(c) THEN Outcome(Some(Black), <<>>)
    ELSE Outcome(IF answer = None THEN None
                 ELSE Some(Color_scale(answer[1], c.material.transparency)),
                 << ColorAtCall(c.under_point, Refract_direction(c), remaining - 1) >>)

\* A shadow test that is made whatever the transparency.
Skips_shadow_test_never(material) == FALSE

\* shade_hit: comp.object.material().transparency >= 1.0
Skips_shadow_test(material) == material.transparency >= 1000

\* A blend for a material that is reflective or transparent.
Blends_either(material) == material.reflective > 0 \/ material.transparency > 0

\* shade_hit: material.reflective > 0.0 && material.transparency > 0.0
Blends(material) == material.reflective > 0 /\ material.transparency > 0

\* The value shade_hit returns, from the three colours.
Shade_hit_value(c, color, reflected_c, refracted_c) ==
    IF Blends(c.material)
    THEN Color_add(Color_add(color, Color_scale(reflected_c, Comp_schlick(c))),
                   Color_scale(refracted_c, 1000 - Comp_schlick(c)))
    ELSE Color_add(Color_add(color, reflected_c), refracted_c)

\* Materials: every combination of none, half and full reflectivity and
\* transparency.
ShadeMaterials == [reflective : {0, 500, 1000}, transparency : {0, 500, 1000}]

\* Unit vectors from the surface to the eye, at cosines 1.0, 0.6 and 0.0
\* with the normal (0, 0, -1).
EyeVectors ==
    { Vec4_vector(0, 0, -Scale),
      Vec4_vector(0, (4 * Scale) \div 5, -((3 * Scale) \div 5)),
      Vec4_vector(0, Scale, 0) }

\* (n1, n2) as prepare_computations reports them: entering glass, leaving
\* it, equal indices and leaving a dense solid.
IndexPairs == { <<10, 15>>, <<15, 10>>, <<10, 10>>, <<20, 10>> }

Comps ==
    { [material |-> mat, n1 |-> n[1], n2 |-> n[2], eyev |-> e,
       normalv |-> Vec4_vector(0, 0, -Scale),
       reflectv |-> Vec4_vector(-e.x, -e.y, e.z),
       over_point |-> Vec4_raw(0, 0, -1, ThresholdInv),
       under_point |-> Vec4_raw(0, 0, 1, ThresholdInv)] :
      mat \in ShadeMaterials, n \in IndexPairs, e \in EyeVectors }

\* The lights of the world by what lighting returns for them.
LightAnswers ==
    { << [ambient |-> Color_new(100, 100, 100), full |-> Color_new(600, 700, 800)] >>,
      << [ambient |-> Color_new(100, 100, 100), full |-> Color_new(600, 700, 800)],
         [ambient |-> Color_new(50, 50, 0), full |-> Color_new(400, 300, 0)] >> }

ColorAnswers == { None, Some(Black), Some(Color_new(1000, 500, 200)) }

Surroundings ==
    [lights : LightAnswers, is_shadowed : {None, Some(TRUE), Some(FALSE)},
     reflect : ColorAnswers, refract : ColorAnswers]

InitShade ==
    /\ pc = "start"
    /\ hitcomp \in Comps
    /\ shade_remaining \in {0, 1, MaxRemaining}
    /\ surroundings \in Surroundings
    /\ flag = None
    /\ local_color = None
    /\ reflected = None
    /\ refracted = None
    /\ shade_result = None
    /\ rays_cast = <<>>
    /\ shadow_tests = <<>>
    /\ EngineIdle
    /\ VecIdle
    /\ MatIdle
    /\ ShapeIdle
    /\ CompIdle
    /\ TraceIdle
    /\ RenderIdle
    /\ ShadowIdle
    /\ SolidIdle
    /\ LoaderIdle
    /\ NormalIdle
    /\ ContextIdle
    /\ LocalNormalIdle
    /\ LightingIdle
    /\ PatternIdle
    /\ SceneIdle
    /\ WalkIdle
    /\ LitIdle

\* shade_hit, the choice of `shadowed`: false for a fully transparent
\* material, else self.is_shadowed(&comp.over_point).
ShadowFlag ==
    /\ pc = "start"
    /\ IF Skips_shadow_test(hitcomp.material)
       THEN /\ flag' = Some(FALSE)
            /\ pc' = "flagged"
            /\ UNCHANGED shadow_tests
       ELSE /\ shadow_tests' = Append(shadow_tests, hitcomp.over_point)
            /\ flag' = surroundings.is_shadowed
            /\ pc' = IF surroundings.is_shadowed = None THEN "panicked" ELSE "flagged"
    /\ UNCHANGED <<hitcomp, shade_remaining, surroundings, local_color, reflected,
                   refracted, shade_result, rays_cast>>
    /\ UNCHANGED <<engineVars, vecVars, matVars, transform, compVars, traceVars, renderVars,
                   shadowVars, solid, loaderVars, wnormal, contextVars, lnormal, lightingVars, patternVars, sceneVars, walk, litVars>>

\* shade_hit, the loop over the lights
LightingLoop ==
    /\ pc = "flagged"
    /\ local_color' = Some(LightingFrom(surroundings.lights, flag[1], 1))
    /\ pc' = "lit"
    /\ UNCHANGED <<hitcomp, shade_remaining, surroundings, flag, reflected,
                   refracted, shade_result, rays_cast, shadow_tests>>
    /\ UNCHANGED <<engineVars, vecVars, matVars, transform, compVars, traceVars, renderVars,
                   shadowVars, solid, loaderVars, wnormal, contextVars, lnormal, lightingVars, patternVars, sceneVars, walk, litVars>>

\* let reflected = self.reflected_color(comp, remaining)
ReflectedColor ==
    /\ pc = "lit"
    /\ \E out \in {Reflected_color(hitcomp, shade_remaining, surroundings.reflect)} :
        /\ reflected' = out.value
        /\ rays_cast' = rays_cast \o out.casts
        /\ pc' = IF out.value = None THEN "panicked" ELSE "reflected"
    /\ UNCHANGED <<hitcomp, shade_remaining, surroundings, flag, local_color,
                   refracted, shade_result, shadow_tests>>
    /\ UNCHANGED <<engineVars, vecVars, matVars, transform, compVars, traceVars, renderVars,
                   shadowVars, solid, loaderVars, wnormal, contextVars, lnormal, lightingVars, patternVars, sceneVars, walk, litVars>>

\* let refracted = self.refracted_color(comp, remaining)
RefractedColor ==
    /\ pc = "reflected"
    /\ \E out \in {Refracted_color(hitcomp, shade_remaining, surroundings.refract)} :
        /\ refracted' = out.value
        /\ rays_cast' = rays_cast \o out.casts
        /\ pc' = IF out.value = None THEN "panicked" ELSE "refracted"
    /\ UNCHANGED <<hitcomp, shade_remaining, surroundings, flag, local_color,
                   reflected, shade_result, shadow_tests>>
    /\ UNCHANGED <<engineVars, vecVars, matVars, transform, compVars, traceVars, renderVars,
                   shadowVars, solid, loaderVars, wnormal, contextVars, lnormal, lightingVars, patternVars, sceneVars, walk, litVars>>

\* shade_hit, the return
ShadeReturn ==
    /\ pc = "refracted"
    /\ shade_result' = Some(Shade_hit_value(hitcomp, local_color[1], reflected[1], refracted[1]))
    /\ pc' = "done"
    /\ UNCHANGED <<hitcomp, shade_remaining, surroundings, flag, local_color, reflected,
                   refracted, rays_cast, shadow_tests>>
    /\ UNCHANGED <<engineVars, vecVars, matVars, transform, compVars, traceVars, renderVars,
                   shadowVars, solid, loaderVars, wnormal, contextVars, lnormal, lightingVars, patternVars, sceneVars, walk, litVars>>

NextShade == ShadowFlag \/ LightingLoop \/ ReflectedColor \/ RefractedColor \/ ShadeReturn

SpecShade == InitShade /\ [][NextShade]_vars

(***************************************************************************)
(* The barycentric context of the normal query: color_at and               *)
(* prepare_computations on lists of intersections with smooth triangles,   *)
(* whose entries carry u and v (Intersection::from_uv).                    *)
(***************************************************************************)
\* u and v are counted in units of 1/UvDen.
UvDen == 4

Intersection_from_uv(object, t, u, v) == [object |-> object, t |-> t, u |-> u, v |-> v]

\* The vertex normals n1, n2, n3 of each smooth triangle of the world.
SmoothNormals(id) ==
    [n1 |-> Vec4_vector(id, 0, 0), n2 |-> Vec4_vector(0, id, 0), n3 |-> Vec4_vector(0, 0, id)]

\* SmoothTriangle::local_normal_at, over UvDen:
\* n2 * hit.u + n3 * hit.v + n1 * (1.0 - hit.u - hit.v)
SmoothTriangle_local_normal_at(tri, hit) ==
    Vec4_raw(tri.n2.x * hit.u + tri.n3.x * hit.v + tri.n1.x * (UvDen - hit.u - hit.v),
             tri.n2.y * hit.u + tri.n3.y * hit.v + tri.n1.y * (UvDen - hit.u - hit.v),
             tri.n2.z * hit.u + tri.n3.z * hit.v + tri.n1.z * (UvDen - hit.u - hit.v),
             tri.n2.w * hit.u + tri.n3.w * hit.v + tri.n1.w * (UvDen - hit.u - hit.v))

\* A normal query that hands over the hit being shaded.
Normal_context_of_hit(self, list) ==
    IF list = None \/ list[1] = <<>> THEN None
    ELSE Some([object |-> self.object, t |-> self.t, u |-> self.u, v |-> self.v])

\* prepare_computations: the i of world_normal_at(&ray.at(self.t),
\* xs.unwrap()[0]); None when the unwrap or the index panics.
Normal_context(self, list) ==
    IF list = None \/ list[1] = <<>> THEN None ELSE Some(list[1][1])

UvPairs == { <<0, 0>>, <<2, 1>> }

\* The lists intersect_world can return for a world of smooth triangles:
\* t ascending in steps of 1.0, up to MaxBehind entries at t <= 0.
UvLists ==
    UNION { { [i \in 1..n |-> Intersection_from_uv(objs[i], (i - behind) * Scale,
                                                   uv[i][1], uv[i][2])] :
                objs \in [1..n -> 1..NumShapes], uv \in [1..n -> UvPairs],
                behind \in 0..MaxBehind } :
            n \in 0..MaxLen }

InitContext ==
    /\ pc = "start"
    /\ refraction = [i \in 1..NumShapes |-> 15]
    /\ comp = None
    /\ given_xs = None
    /\ context = None
    /\ cnormal = None
    /\ EngineIdle
    /\ VecIdle
    /\ MatIdle
    /\ ShapeIdle
    /\ TraceIdle
    /\ RenderIdle
    /\ ShadowIdle
    /\ SolidIdle
    /\ LoaderIdle
    /\ NormalIdle
    /\ ShadeIdle
    /\ LocalNormalIdle
    /\ LightingIdle
    /\ PatternIdle
    /\ SceneIdle
    /\ WalkIdle
    /\ LitIdle

\* What prepare_computations leaves behind for self and the xs it is given.
PrepareOutcome(self, arg) ==
    /\ given_xs' = Some(arg)
    /\ context' = Normal_context(self, arg)
    /\ comp' = Prepare_computations(self, arg, refraction)
    /\ cnormal' = IF context' = None THEN None
                  ELSE Some(SmoothTriangle_local_normal_at(SmoothNormals(self.object),
                                                           context'[1]))

\* World::color_at(ray, remaining) up to its call of shade_hit: the list
\* of intersect_world is cloned into xs, hit retains and sorts the other
\* copy, and the hit gets prepare_computations(&ray, Some(&xs)).
ColorAt ==
    /\ pc = "start"
    /\ \E l \in UvLists :
        /\ xs' = l
        /\ inter' = Hit_list(l)
        /\ hitRes' = Hit_result(l)
        /\ IF hitRes' = None
           THEN /\ pc' = "black"
                /\ UNCHANGED <<comp, contextVars>>
           ELSE /\ PrepareOutcome(hitRes'[1], Some(xs'))
                /\ pc' = IF comp' = None THEN "panicked" ELSE "shading"
    /\ UNCHANGED <<ray, refraction, vecVars, matVars, transform, traceVars, renderVars,
                   shadowVars, solid, loaderVars, wnormal, shadeVars, lnormal, lightingVars, patternVars, sceneVars, walk, litVars>>

\* l[k].prepare_computations(&ray, arg) called directly, with the list, an
\* empty list or None.
PrepareDirect ==
    /\ pc = "start"
    /\ \E l \in UvLists :
        \E k \in 1..Len(l), arg \in {None, Some(<<>>), Some(l)} :
            /\ xs' = l
            /\ inter' = l
            /\ hitRes' = Some(l[k])
            /\ PrepareOutcome(l[k], arg)
            /\ pc' = IF comp' = None THEN "panicked" ELSE "prepared"
    /\ UNCHANGED <<ray, refraction, vecVars, matVars, transform, traceVars, renderVars,
                   shadowVars, solid, loaderVars, wnormal, shadeVars, lnormal, lightingVars, patternVars, sceneVars, walk, litVars>>

NextContext == ColorAt \/ PrepareDirect

SpecContext == InitContext /\ [][NextContext]_vars

(***************************************************************************)
(* material.rs Material::lighting for a material without a pattern.        *)
(* Colours and coefficients are in thousandths, unit vectors over Scale,   *)
(* dot products of unit vectors in thousandths.                            *)
(***************************************************************************)
\* Vec4::reflect for vectors over Scale: self - normal * 2.0 * self.dot(normal)
Vec4_reflect(v, n) ==
    Vec4_raw(v.x - TruncDiv(n.x * 2 * Vec4_dot(v, n), Scale * Scale),
             v.y - TruncDiv(n.y * 2 * Vec4_dot(v, n), Scale * Scale),
             v.z - TruncDiv(n.z * 2 * Vec4_dot(v, n), Scale * Scale),
             v.w - TruncDiv(n.w * 2 * Vec4_dot(v, n), Scale * Scale))

Vec4_neg(v) == Vec4_raw(-v.x, -v.y, -v.z, -v.w)

\* a.dot(b) of two vectors over Scale, in thousandths
UnitDot(a, b) == TruncDiv(Vec4_dot(a, b) * 1000, Scale * Scale)

RECURSIVE Powf(_, _)
\* x.powf(n) for x >= 0 in thousandths and a whole n
Powf(x, n) ==
    IF n = 0 THEN 1000
    ELSE IF n % 2 = 0 THEN (Powf(x, n \div 2) * Powf(x, n \div 2)) \div 1000
    ELSE (x * Powf(x, n - 1)) \div 1000

\* lightv = (light.position - *point).normalize()
Lightv(a) == Vec4_normalize_to(Vec4_sub(a.light.position, a.point), Scale)

Light_dot_normal(a) == UnitDot(Lightv(a), a.normalv)

Reflect_dot_eye(a) == UnitDot(Vec4_reflect(Vec4_neg(Lightv(a)), a.normalv), a.eyev)

LightingTerms(ambient, diffuse, specular, result) ==
    [ambient |-> ambient, diffuse |-> diffuse, specular |-> specular, result |-> result]

\* A lighting that pays no attention to in_shadow.
Material_lighting_terms_unshadowed(a) ==
    LET effective_color == Color_mul(a.material.color, a.light.intensity)
        ambient == Color_scale(effective_color, a.material.ambient)
        diffuse == IF Light_dot_normal(a) < 0 THEN Black
                   ELSE Color_scale(Color_scale(effective_color, a.material.diffuse),
                                    Light_dot_normal(a))
        specular == IF Light_dot_normal(a) < 0 \/ Reflect_dot_eye(a) <= 0 THEN Black
                    ELSE Color_scale(Color_scale(a.light.intensity, a.material.specular),
                                     Powf(Reflect_dot_eye(a), a.material.shininess))
    IN LightingTerms(ambient, diffuse, specular,
                     Color_add(Color_add(ambient, diffuse), specular))

\* Material::lighting: the three terms and the colour returned.  In shadow
\* the function returns before diffuse and specular exist: they are black
\* in the record.
Material_lighting_terms(a) ==
    LET effective_color == Color_mul(a.material.color, a.light.intensity)
        ambient == Color_scale(effective_color, a.material.ambient)
        diffuse == IF Light_dot_normal(a) < 0 THEN Black
                   ELSE Color_scale(Color_scale(effective_color, a.material.diffuse),
                                    Light_dot_normal(a))
        specular == IF Light_dot_normal(a) < 0 \/ Reflect_dot_eye(a) <= 0 THEN Black
                    ELSE Color_scale(Color_scale(a.light.intensity, a.material.specular),
                                     Powf(Reflect_dot_eye(a), a.material.shininess))
    IN IF a.in_shadow THEN LightingTerms(ambient, Black, Black, ambient)
       ELSE LightingTerms(ambient, diffuse, specular,
                          Color_add(Color_add(ambient, diffuse), specular))

\* Material::default and a dull coloured material of low shininess
LightingMaterials ==
    { [color |-> Color_new(1000, 1000, 1000), ambient |-> 100, diffuse |-> 900,
       specular |-> 900, shininess |-> 200],
      [color |-> Color_new(1000, 200, 600), ambient |-> 300, diffuse |-> 700,
       specular |-> 300, shininess |-> 2],
      [color |-> Color_new(500, 500, 500), ambient |-> 0, diffuse |-> 1000,
       specular |-> 0, shininess |-> 10] }

\* Lights in front of, beside and behind the surface at the origin whose
\* normal is (0, 0, -1).
LightingLights ==
    { [intensity |-> i, position |-> Vec4_point(x, y, z)] :
        i \in { Color_new(1000, 1000, 1000), Color_new(500, 1000, 250) },
        x \in {0}, y \in {0, 10, -10}, z \in {-10, 0, 10} }
    \ { [intensity |-> i, position |-> Vec4_point(0, 0, 0)] :
        i \in { Color_new(1000, 1000, 1000), Color_new(500, 1000, 250) } }

\* Eye vectors over Scale: along the normal, 45 degrees up and down, and
\* from behind the surface.
LightingEyes ==
    { Vec4_vector(0, 0, -Scale),
      Vec4_vector(0, (707 * Scale) \div 1000, -((707 * Scale) \div 1000)),
      Vec4_vector(0, -((707 * Scale) \div 1000), -((707 * Scale) \div 1000)),
      Vec4_vector(0, 0, Scale) }

LightingArgs ==
    [material : LightingMaterials, light : LightingLights, point : {Vec4_point(0, 0, 0)},
     eyev : LightingEyes, normalv : {Vec4_vector(0, 0, -Scale)}, in_shadow : BOOLEAN]

InitLighting ==
    /\ pc = "start"
    /\ lighting_args \in LightingArgs
    /\ lighting_out = None
    /\ EngineIdle
    /\ VecIdle
    /\ MatIdle
    /\ ShapeIdle
    /\ CompIdle
    /\ TraceIdle
    /\ RenderIdle
    /\ ShadowIdle
    /\ SolidIdle
    /\ LoaderIdle
    /\ NormalIdle
    /\ ShadeIdle
    /\ ContextIdle
    /\ LocalNormalIdle
    /\ PatternIdle
    /\ SceneIdle
    /\ WalkIdle
    /\ LitIdle

\* material.lighting(object, light, point, eyev, normalv, in_shadow)
MaterialLighting ==
    /\ pc = "start"
    /\ lighting_out' = Some(Material_lighting_terms(lighting_args))
    /\ pc' = "done"
    /\ UNCHANGED <<lighting_args, engineVars, vecVars, matVars, transform, compVars,
                   traceVars, renderVars, shadowVars, solid, loaderVars, wnormal, shadeVars,
                   contextVars, lnormal, patternVars, sceneVars, walk, litVars>>

NextLighting == MaterialLighting

SpecLighting == InitLighting /\ [][NextLighting]_vars

(***************************************************************************)
(* pattern.rs: the five Pattern variants.  A point is homogeneous: its     *)
(* coordinates are x / w, y / w, z / w with w > 0.  Colours count          *)
(* thousandths.                                                            *)
(***************************************************************************)
\* f32::floor of x / w
Floor(x, w) == x \div w

\* `n as i32 % 2 == 0`
IsEven(n) == n % 2 = 0

\* StripePattern::color_at
StripePattern_color_at(pattern, p) ==
    IF IsEven(Floor(p.x, p.w)) THEN pattern.primary_color ELSE pattern.secondary_color

\* GradientPattern::color_at: primary + (secondary - primary) * (x - floor(x))
GradientPattern_color_at(pattern, p) ==
    [k \in 1..3 |->
        pattern.primary_color[k]
        + TruncDiv((pattern.secondary_color[k] - pattern.primary_color[k]) * (p.x % p.w), p.w)]

\* RingPattern::color_at
RingPattern_color_at(pattern, p) ==
    IF IsEven(Sqrt((p.x * p.x + p.z * p.z) \div (p.w * p.w)))
    THEN pattern.primary_color ELSE pattern.secondary_color

\* CheckeredPattern::color_at
CheckeredPattern_color_at(pattern, p) ==
    IF IsEven(Floor(p.x, p.w) + Floor(p.y, p.w) + Floor(p.z, p.w))
    THEN pattern.primary_color ELSE pattern.secondary_color

\* color_at of the four variants that hold two colours
Simple_color_at(pattern, p) ==
    CASE pattern.kind = "stripe" -> StripePattern_color_at(pattern, p)
      [] pattern.kind = "gradient" -> GradientPattern_color_at(pattern, p)
      [] pattern.kind = "ring" -> RingPattern_color_at(pattern, p)
      [] pattern.kind = "checkered" -> CheckeredPattern_color_at(pattern, p)

\* Color * 0.5
Color_half(c) == [k \in 1..3 |-> c[k] \div 2]

\* BlendedPattern::color_at: both sub-patterns' color_at at the point given
BlendedPattern_color_at(pattern, p) ==
    Color_half(Color_add(Simple_color_at(pattern.first_pattern, p),
                         Simple_color_at(pattern.second_pattern, p)))

\* Pattern::color_at
Pattern_color_at(pattern, p) ==
    IF pattern.kind = "blended" THEN BlendedPattern_color_at(pattern, p)
    ELSE Simple_color_at(pattern, p)

\* the pattern_point of color_at_object, given the inverse of the shape's transform
Pattern_point(pattern, inverse, world_point) ==
    Matrix4x4_mul_vec(pattern.transform.n, Matrix4x4_mul_vec(inverse.n, world_point))

\* Pattern::color_at_object: None when shape.transform().invert() panics
Pattern_color_at_object(pattern, shape_transform, world_point) ==
    LET inverse == Matrix4x4_invert(shape_transform)
    IN IF inverse = None THEN None
       ELSE Some(Pattern_color_at(pattern, Pattern_point(pattern, inverse[1], world_point)))

White == Color_new(1000, 1000, 1000)

PatternTransforms ==
    { Matrix4x4_identity, Matrix4x4_translation(1, 0, 0, 1), Matrix4x4_scale(2, 2, 2, 1) }

PatternShapeTransforms ==
    { Matrix4x4_identity, Matrix4x4_scale(2, 2, 2, 1), Matrix4x4_translation(0, 0, 1, 1),
      Matrix4x4_scale(1, 0, 1, 1) }

SimplePatterns ==
    [ kind : {"stripe", "gradient", "ring", "checkered"},
      primary_color : {White}, secondary_color : {Black, Color_new(0, 0, 500)},
      transform : PatternTransforms ]

SubPatterns ==
    [ kind : {"stripe", "checkered"}, primary_color : {White}, secondary_color : {Black},
      transform : PatternTransforms ]

BlendedPatterns ==
    [ kind : {"blended"}, first_pattern : SubPatterns, second_pattern : SubPatterns,
      transform : {Matrix4x4_identity, Matrix4x4_translation(1, 0, 0, 1)} ]

\* world points with coordinates in halves
PatternPoints ==
    { Vec4_raw(x, y, z, 2) : x \in (-2 * MaxCoord - 1)..(2 * MaxCoord + 1), y \in {0, 1}, z \in {0, 3} }

InitPattern ==
    /\ pc = "start"
    /\ pattern_args \in [ pattern : SimplePatterns \cup BlendedPatterns,
                          shape_transform : PatternShapeTransforms,
                          world_point : PatternPoints ]
    /\ sampled = None
    /\ EngineIdle /\ VecIdle /\ MatIdle /\ ShapeIdle /\ CompIdle /\ TraceIdle /\ RenderIdle
    /\ ShadowIdle /\ SolidIdle /\ LoaderIdle /\ NormalIdle /\ ShadeIdle /\ ContextIdle
    /\ LocalNormalIdle /\ LightingIdle
    /\ SceneIdle
    /\ WalkIdle
    /\ LitIdle

\* pattern.color_at_object(object, point), as Material::lighting calls it
ColorAtObject ==
    /\ pc = "start"
    /\ \E c \in {Pattern_color_at_object(pattern_args.pattern, pattern_args.shape_transform,
                                          pattern_args.world_point)} :
        /\ sampled' = c
        /\ pc' = IF c = None THEN "panicked" ELSE "done"
    /\ UNCHANGED pattern_args
    /\ UNCHANGED <<engineVars, vecVars, matVars, transform, compVars, traceVars, renderVars,
                   shadowVars, solid, loaderVars, wnormal, shadeVars, contextVars, lnormal,
                   lightingVars, sceneVars, walk, litVars>>

NextPattern == ColorAtObject

SpecPattern == InitPattern /\ [][NextPattern]_vars

(***************************************************************************)
(* model.rs, main.rs, world.rs: a Model in the world.  The Model has id 0  *)
(* and its i-th child triangle has id i.                                   *)
(***************************************************************************)
\* Material::new(material.color, ..., material.refraction, None), the copy
\* process_obj_file gives to each child
Material_copy(material) == [material EXCEPT !.pattern = "none"]

\* Triangle::new(material, p1, p2, p3) as the id-th child: transform identity
Child_new(id, material, tri) ==
    [kind |-> "Triangle", id |-> id, transform |-> Matrix4x4_identity,
     material |-> Material_copy(material), p1 |-> tri[1], p2 |-> tri[2], p3 |-> tri[3]]

\* Model::new(material, file_path) for a file with the given faces
Model_new(material, faces) ==
    [kind |-> "Model", id |-> 0, transform |-> Matrix4x4_identity, material |-> material,
     triangles |-> [i \in 1..Len(faces) |-> Child_new(i, material, faces[i])]]

\* Triangle::local_intersect of a child: Intersection::new(self, t)
Child_local_intersect(tri, r) ==
    [k \in 1..Len(Triangle_local_intersect(tri, r)) |->
        Intersection_new(tri.id, Triangle_local_intersect(tri, r)[k].t)]

RECURSIVE AppendFrom(_, _, _)
\* for tri in &self.triangles { xs.append(&mut tri.local_intersect(ray)) }
AppendFrom(tris, r, i) ==
    IF i > Len(tris) THEN <<>>
    ELSE Child_local_intersect(tris[i], r) \o AppendFrom(tris, r, i + 1)

\* A local_intersect that names the Model as the object of every intersection.
Model_local_intersect_as_self(self, r) ==
    [k \in 1..Len(AppendFrom(self.triangles, r, 1)) |->
        Intersection_new(self.id, AppendFrom(self.triangles, r, 1)[k].t)]

\* Model::local_intersect
Model_local_intersect(self, r) == AppendFrom(self.triangles, r, 1)

\* what an Intersection's object refers to in a world that holds the Model
Object_of(self, id) == IF id = self.id THEN self ELSE self.triangles[id]

\* shape.local_normal_at(&local_point, i) of the Model or of a child
Mesh_local_normal_at(shape, lp) ==
    IF shape.kind = "Model" THEN ModelNormalFrom(shape.triangles, lp, 1)
    ELSE Triangle_local_normal_at(shape, lp)

\* shape.world_normal_at(&world_point, i) of the Model or of a child
Mesh_world_normal_at(shape, world_point) ==
    LET inverse == Matrix4x4_invert(shape.transform)[1]
        local_normal == Mesh_local_normal_at(shape, Local_point_with(inverse, world_point))
        world_normal == Matrix4x4_mul_vec(Matrix4x4_transpose(inverse.n), local_normal)
    IN IF Vec4_is_nan(local_normal) THEN Vec4_raw(NaN, NaN, NaN, NaN)
       ELSE Vec4_normalize_to(Vec4_vector(world_normal.x, world_normal.y, world_normal.z), Scale)

\* ray.at(t) as a homogeneous point, for t in units of 1/Scale
Ray_at(r, t) ==
    Vec4_raw(r.origin.x * Scale + r.direction.x * t, r.origin.y * Scale + r.direction.y * t,
             r.origin.z * Scale + r.direction.z * t, Scale)

\* What color_at shades with after hit.prepare_computations: comp.object,
\* its transform (used by world_normal_at), its material (used by shade_hit)
\* and comp's normal before the flip toward the eye.
Shaded_with(self, r, hit) ==
    [object |-> hit.object,
     transform |-> Object_of(self, hit.object).transform,
     material |-> Object_of(self, hit.object).material,
     normalv |-> Mesh_world_normal_at(Object_of(self, hit.object), Ray_at(r, hit.t))]

MeshMaterials ==
    [ color : {White}, ambient : {100, 500}, reflective : {0, 500},
      pattern : {"none", "checkered"} ]

\* The faces of the file: one triangle in the plane z = 0, one in z = 1.
MeshFaces ==
    { <<>>,
      << <<Vec4_point(0, 1, 0), Vec4_point(-1, 0, 0), Vec4_point(1, 0, 0)>> >>,
      << <<Vec4_point(0, 1, 0), Vec4_point(-1, 0, 0), Vec4_point(1, 0, 0)>>,
         <<Vec4_point(0, 1, 1), Vec4_point(-1, 0, 1), Vec4_point(1, 0, 1)>> >>,
      << <<Vec4_point(0, 1, 1), Vec4_point(-1, 0, 1), Vec4_point(1, 0, 1)>>,
         <<Vec4_point(0, 1, 0), Vec4_point(-1, 0, 0), Vec4_point(1, 0, 0)>> >> }

\* The transforms main may give the Model; the last one has no inverse.
MeshTransforms ==
    { Matrix4x4_translation(0, 0, 1, 1), Matrix4x4_translation(1, 0, 0, 1),
      Matrix4x4_scale(1, 1, 1, 2), Matrix4x4_shearing(0, 0, 0, 0, 1, 0),
      Matrix4x4_scale(1, 0, 1, 1) }

MeshRays ==
    { Ray_new(Vec4_point(x, y, -OriginZ), Vec4_vector(0, 0, dz)) :
        x \in -MaxOrigin..MaxOrigin, y \in 0..MaxOrigin, dz \in {-1, 1} }

InitScene ==
    /\ pc = "loaded"
    /\ loaded_with \in MeshMaterials
    /\ \E faces \in MeshFaces : scene = Model_new(loaded_with, faces)
    /\ mesh_xs = None
    /\ shaded = None
    /\ EngineIdle /\ VecIdle /\ MatIdle /\ ShapeIdle /\ CompIdle /\ TraceIdle /\ RenderIdle
    /\ ShadowIdle /\ SolidIdle /\ LoaderIdle /\ NormalIdle /\ ShadeIdle /\ ContextIdle
    /\ LocalNormalIdle /\ LightingIdle /\ PatternIdle
    /\ WalkIdle
    /\ LitIdle

\* main: model.material.ambient = 0.8
SetModelAmbient ==
    /\ pc = "loaded"
    /\ scene.material.ambient # 800
    /\ scene' = [scene EXCEPT !.material.ambient = 800]
    /\ UNCHANGED <<pc, loaded_with, mesh_xs, shaded>>
    /\ UNCHANGED <<engineVars, vecVars, matVars, transform, compVars, traceVars, renderVars,
                   shadowVars, solid, loaderVars, wnormal, shadeVars, contextVars, lnormal,
                   lightingVars, patternVars, walk, litVars>>

\* main: model.transform = ...
SetModelTransform ==
    /\ pc = "loaded"
    /\ scene.transform = Matrix4x4_identity
    /\ \E t \in MeshTransforms : scene' = [scene EXCEPT !.transform = t]
    /\ UNCHANGED <<pc, loaded_with, mesh_xs, shaded>>
    /\ UNCHANGED <<engineVars, vecVars, matVars, transform, compVars, traceVars, renderVars,
                   shadowVars, solid, loaderVars, wnormal, shadeVars, contextVars, lnormal,
                   lightingVars, patternVars, walk, litVars>>

\* world.color_at(ray, remaining) in the world whose one object is the Model:
\* intersect_world (Intersection::intersect, sort), hit, prepare_computations.
ColorAtMesh ==
    /\ pc = "loaded"
    /\ \E r \in MeshRays, inverse \in {Matrix4x4_invert(scene.transform)} :
        IF inverse = None
        THEN /\ pc' = "panicked"
             /\ UNCHANGED <<mesh_xs, shaded>>
        ELSE \E list \in {SortByT(Model_local_intersect(scene, Ray_transform(r, inverse[1])))} :
                /\ mesh_xs' = Some(list)
                /\ shaded' = IF Hit_result(list) = None THEN None
                             ELSE Some(Shaded_with(scene, r, Hit_result(list)[1]))
                /\ pc' = IF Hit_result(list) = None THEN "black" ELSE "shading"
    /\ UNCHANGED <<scene, loaded_with>>
    /\ UNCHANGED <<engineVars, vecVars, matVars, transform, compVars, traceVars, renderVars,
                   shadowVars, solid, loaderVars, wnormal, shadeVars, contextVars, lnormal,
                   lightingVars, patternVars, walk, litVars>>

NextScene == SetModelAmbient \/ SetModelTransform \/ ColorAtMesh

SpecScene == InitScene /\ [][NextScene]_vars

(***************************************************************************)
(* intersection.rs: prepare_computations, one iteration of its for loop    *)
(* at a time.                                                              *)
(***************************************************************************)
\* An intersection that is in none of the lists.
Outsider == Intersection_new(1, (MaxXs + 1) * Scale)

\* The indices of the shapes: all different, or all 1.5.
StepRefractions == { [i \in 1..NumShapes |-> 10 + 5 * i], [i \in 1..NumShapes |-> 15] }

\* On entry: n1 = 1.0, n2 = 1.0, stack = Vec::new()
InitSteps ==
    /\ pc = "walking"
    /\ ray = None
    /\ xs \in SortedLists \cup TangentLists
    /\ inter = xs
    /\ \E k \in 0..Len(xs) : hitRes = Some(IF k = 0 THEN Outsider ELSE xs[k])
    /\ refraction \in StepRefractions
    /\ comp = None
    /\ walk = [i |-> 1, stack |-> <<>>, n1 |-> Vacuum, n2 |-> Vacuum, broke |-> FALSE]
    /\ VecIdle /\ MatIdle /\ ShapeIdle /\ TraceIdle /\ RenderIdle /\ ShadowIdle /\ SolidIdle
    /\ LoaderIdle /\ NormalIdle /\ ShadeIdle /\ ContextIdle /\ LocalNormalIdle
    /\ LightingIdle /\ PatternIdle /\ SceneIdle
    /\ LitIdle

\* One iteration of `for inter in xs`: n1 from the stack, the stack update,
\* n2 from the stack, and the break at the intersection that is self.
WalkStep ==
    /\ pc = "walking"
    /\ walk.i <= Len(xs)
    /\ ~walk.broke
    /\ \E stack_new \in {UpdateStack(walk.stack, xs[walk.i].object)} :
        walk' = [i |-> walk.i + 1,
                 stack |-> stack_new,
                 n1 |-> TopIndex(walk.stack, refraction),
                 n2 |-> TopIndex(stack_new, refraction),
                 broke |-> (hitRes[1].object = xs[walk.i].object /\ hitRes[1].t = xs[walk.i].t)]
    /\ UNCHANGED <<pc, engineVars, compVars, litVars>>
    /\ UNCHANGED <<vecVars, matVars, transform, traceVars, renderVars, shadowVars, solid,
                   loaderVars, wnormal, shadeVars, contextVars, lnormal, lightingVars,
                   patternVars, sceneVars, litVars>>

\* After the loop: xs.unwrap()[0] panics on an empty list, otherwise
\* Comp::new takes n1 and n2.
WalkReturn ==
    /\ pc = "walking"
    /\ walk.i > Len(xs) \/ walk.broke
    /\ comp' = IF xs = <<>> THEN None
               ELSE Some([t |-> hitRes[1].t, object |-> hitRes[1].object,
                          n1 |-> walk.n1, n2 |-> walk.n2])
    /\ pc' = IF xs = <<>> THEN "panicked" ELSE "prepared"
    /\ UNCHANGED <<walk, engineVars, refraction, litVars>>
    /\ UNCHANGED <<vecVars, matVars, transform, traceVars, renderVars, shadowVars, solid,
                   loaderVars, wnormal, shadeVars, contextVars, lnormal, lightingVars,
                   patternVars, sceneVars, litVars>>

NextSteps == WalkStep \/ WalkReturn

SpecSteps == InitSteps /\ [][NextSteps]_vars

(***************************************************************************)
(* world.rs: is_shadowed and the lighting loop of shade_hit in a world of  *)
(* several lights.  Each light carries shadow_xs, the list intersect_world *)
(* returns for the ray is_shadowed casts from the point toward it.         *)
(***************************************************************************)
\* distance = (light.position - *point).magnitude(), in units of 1/Scale
Light_distance(light, p) == Vec4_magnitude(Vec4_sub(light.position, p))

RECURSIVE Is_shadowed_from(_, _, _)
\* The loop of is_shadowed from the i-th light on.
Is_shadowed_from(lights, p, i) ==
    IF i > Len(lights) THEN "false"
    ELSE ShadowStep(Some(lights[i].shadow_xs), Light_distance(lights[i], p),
                    Is_shadowed_from(lights, p, i + 1))

\* shade_hit's `shadowed`
Shade_hit_shadowed(a) ==
    IF Skips_shadow_test(a.material) THEN FALSE
    ELSE Is_shadowed_from(a.lights, a.point, 1) = "true"

\* The arguments of lighting for the i-th light
Lighting_call(a, i, in_shadow) ==
    [material |-> a.material, light |-> a.lights[i], point |-> a.point, eyev |-> a.eyev,
     normalv |-> a.normalv, in_shadow |-> in_shadow]

\* A lighting loop that hands each light the outcome of its own shadow test.
Shade_hit_lighting_per_light(a, in_shadow) ==
    [i \in 1..Len(a.lights) |->
        Material_lighting_terms(Lighting_call(a, i,
            ShadowTest(a.lights[i].shadow_xs, Light_distance(a.lights[i], a.point)))).result]

\* shade_hit: what lighting(.., shadowed) returns for each light
Shade_hit_lighting(a, in_shadow) ==
    [i \in 1..Len(a.lights) |-> Material_lighting_terms(Lighting_call(a, i, in_shadow)).result]

RECURSIVE Color_sum(_, _)
\* color = color + c over the lights, from the i-th on
Color_sum(colors, i) ==
    IF i > Len(colors) THEN Black ELSE Color_add(colors[i], Color_sum(colors, i + 1))

\* What intersect_world may return for a shadow ray: nothing, a hit at 5,
\* a hit at 20, and a hit at 5 after one behind the point.
ShadowLists ==
    { <<>>, << Intersection_new(1, 5 * Scale) >>, << Intersection_new(1, 20 * Scale) >>,
      << Intersection_new(1, -5 * Scale), Intersection_new(2, 5 * Scale) >> }

\* Lights at distance 10 and 14.1 in front of the surface and one behind it.
ShadeLights ==
    [ intensity : {Color_new(1000, 1000, 1000)},
      position : {Vec4_point(0, 0, -10), Vec4_point(0, 10, -10), Vec4_point(0, 10, 10)},
      shadow_xs : ShadowLists ]

ShadeLightLists == { <<a>> : a \in ShadeLights } \cup { <<a, b>> : a \in ShadeLights, b \in ShadeLights }

LitMaterials ==
    { [color |-> mat.color, ambient |-> mat.ambient, diffuse |-> mat.diffuse,
       specular |-> mat.specular, shininess |-> mat.shininess, transparency |-> tr] :
        mat \in LightingMaterials, tr \in {0, 500, 1000} }

InitLights ==
    /\ pc = "start"
    /\ lit_args \in [ material : LitMaterials, lights : ShadeLightLists,
                      point : {Vec4_point(0, 0, 0)},
                      eyev : {Vec4_vector(0, 0, -Scale)}, normalv : {Vec4_vector(0, 0, -Scale)} ]
    /\ lit_out = None
    /\ EngineIdle /\ VecIdle /\ MatIdle /\ ShapeIdle /\ CompIdle /\ TraceIdle /\ RenderIdle
    /\ ShadowIdle /\ SolidIdle /\ LoaderIdle /\ NormalIdle /\ ShadeIdle /\ ContextIdle
    /\ LocalNormalIdle /\ LightingIdle /\ PatternIdle /\ SceneIdle /\ WalkIdle

\* shade_hit up to the end of its loop over the lights
ShadeHitLights ==
    /\ pc = "start"
    /\ \E in_shadow \in {Shade_hit_shadowed(lit_args)} :
        \E parts \in {Shade_hit_lighting(lit_args, in_shadow)} :
            lit_out' = Some([shadowed |-> in_shadow, parts |-> parts,
                             color |-> Color_sum(parts, 1)])
    /\ pc' = "lit"
    /\ UNCHANGED lit_args
    /\ UNCHANGED <<engineVars, vecVars, matVars, transform, compVars, traceVars, renderVars,
                   shadowVars, solid, loaderVars, wnormal, shadeVars, contextVars, lnormal,
                   lightingVars, patternVars, sceneVars, walk>>

NextLights == ShadeHitLights

SpecLights == InitLights /\ [][NextLights]_vars

(***************************************************************************)
(* Claims about the intersection engine (checked under Spec).              *)
(***************************************************************************)
Positive(s) == { i \in 1..Len(s) : FGt(s[i].t, 0) }

\* C1: after hit, no entry with t <= 0 (or NaN) is left in the list and every
\* entry with t > 0 is; hit returns None exactly when the list it was given
\* has no entry with t > 0, and otherwise an entry of that list whose t is
\* positive and no larger than the t of any other positive entry.
HitSelectsNearestPositive ==
    pc = "hit" =>
        /\ \A i \in 1..Len(inter) : FGt(inter[i].t, 0)
        /\ Len(inter) = Cardinality(Positive(xs))
        /\ (hitRes = None) <=> (Positive(xs) = {})
        /\ hitRes # None =>
            /\ \E i \in Positive(xs) : hitRes[1] = xs[i]
            /\ \A i \in Positive(xs) : FLe(hitRes[1].t, xs[i].t)

\* C1 witness: hit has run on a list that holds an entry with t <= 0 and a
\* positive entry in front of the nearest one.
HitSelectsNearestPositiveWitness ==
    /\ pc = "hit"
    /\ hitRes # None
    /\ \E i \in 1..Len(xs) : FLe(xs[i].t, 0)
    /\ FGt(xs[1].t, hitRes[1].t)

\* C10: on the unit sphere local_intersect returns nothing or two roots of
\* a*t^2 + b*t + c (each within the rounding of the fixed-point root), the
\* smaller first, negative ones included; the ray from (0,0,-5) along
\* (0,0,1) yields t = 4 and t = 6, the ray from (0,0,0) along (0,0,1) yields
\* t = -1 and t = 1, and hit on that list selects t = 1.
SphereRootsAscending ==
    (pc \in {"listed", "hit"} /\ ray # None) =>
        LET o == ray[1].origin
            d == ray[1].direction
            a == d.x * d.x + d.y * d.y + d.z * d.z
            b == 2 * (d.x * o.x + d.y * o.y + d.z * o.z)
            c == o.x * o.x + o.y * o.y + o.z * o.z - 1
            disc == b * b - 4 * a * c
            IsRoot(t) == Abs(a * t * t + b * Scale * t + c * Scale * Scale)
                            <= 2 * Sqrt(disc * Scale * Scale) + 3 * a + 2
        IN /\ (disc < 0) <=> (xs = <<>>)
           /\ (disc >= 0 /\ a # 0) =>
                /\ Len(xs) = 2
                /\ xs[1].t <= xs[2].t
                /\ IsRoot(xs[1].t) /\ IsRoot(xs[2].t)
                /\ xs[1].object = SphereId /\ xs[2].object = SphereId
           /\ (o = Vec4_point(0, 0, -5) /\ d = Vec4_vector(0, 0, 1)) =>
                /\ Len(xs) = 2
                /\ xs[1].t = 4 * Scale /\ xs[2].t = 6 * Scale
           /\ (o = Vec4_point(0, 0, 0) /\ d = Vec4_vector(0, 0, 1)) =>
                /\ Len(xs) = 2
                /\ xs[1].t = -Scale /\ xs[2].t = Scale
                /\ pc = "hit" => hitRes = Some(Intersection_new(SphereId, Scale))

\* C10 witness: hit has run on the two roots of the ray that starts at the
\* sphere's centre, one of them negative.
SphereRootsAscendingWitness ==
    /\ pc = "hit"
    /\ ray = Some(Ray_new(Vec4_point(0, 0, 0), Vec4_vector(0, 0, 1)))
    /\ Len(xs) = 2
    /\ xs[1].t < 0
    /\ hitRes # None

(***************************************************************************)
(* Claims about Vec4 (checked under SpecVec).                              *)
(***************************************************************************)
\* C9: point - point has w = 0, point - vector has w = 1 and vector - vector
\* has w = 0; the other components are the component-wise differences.
SubKeepsMarker ==
    vdiff # None =>
        /\ (va.w = 1 /\ vb.w = 1) => vdiff[1].w = 0
        /\ (va.w = 1 /\ vb.w = 0) => vdiff[1].w = 1
        /\ (va.w = 0 /\ vb.w = 0) => vdiff[1].w = 0
        /\ vdiff[1].x = va.x - vb.x
        /\ vdiff[1].y = va.y - vb.y
        /\ vdiff[1].z = va.z - vb.z

\* C9 witness: a point has been subtracted from a different point.
SubKeepsMarkerWitness ==
    /\ vdiff # None
    /\ va \in Points /\ vb \in Points
    /\ va # vb
    /\ vdiff[1] \in Vectors

(***************************************************************************)
(* Claims about matrix inversion (checked under SpecMatrix).               *)
(***************************************************************************)
\* C6: invert panics exactly when the determinant is below 1e-5 in absolute
\* value, so it never divides by a determinant that is_invertible rejects,
\* and a matrix it returns has entry (r, c) = cofactor(c, r) / determinant.
InvertGuarded ==
    pc # "start" =>
        LET det == Matrix4x4_determinant(matrix)
        IN /\ (pc = "panicked") <=> EqualsZero(det[1], det[2])
           /\ (pc = "panicked") <=> (inv = None)
           /\ inv # None =>
                /\ inv[1].d > 0
                /\ \A r \in 0..3, c \in 0..3 :
                     Get4(inv[1].n, r, c) * Det4(matrix.n)
                        = matrix.d * Matrix4x4_cofactor(matrix.n, c, r) * inv[1].d

\* C6 witness: invert has panicked on a matrix whose determinant is not 0
\* but below the threshold.
InvertGuardedWitness ==
    /\ pc = "panicked"
    /\ Det4(matrix.n) # 0

\* C8 (as claimed): for every invertible integer-valued matrix matrix,
\* m * m.invert() equals the identity, m.invert().invert() returns and
\* equals m, and m * adj(m) = det(m) * I.
InverseRoundTrip ==
    (matrix.d = 1 /\ pc \notin {"start", "panicked"}) =>
        /\ pc = "multiplied" => Matrix4x4_eq(prod[1], Matrix4x4_identity)
        /\ pc # "panicked2"
        /\ pc = "inverted2" => Matrix4x4_eq(inv2[1], matrix)
        /\ \A r \in 0..3, c \in 0..3 :
             Get4(matrix.n, r, 0) * Matrix4x4_cofactor(matrix.n, c, 0) +
             Get4(matrix.n, r, 1) * Matrix4x4_cofactor(matrix.n, c, 1) +
             Get4(matrix.n, r, 2) * Matrix4x4_cofactor(matrix.n, c, 2) +
             Get4(matrix.n, r, 3) * Matrix4x4_cofactor(matrix.n, c, 3)
                = (IF r = c THEN Det4(matrix.n) ELSE 0)

\* The part of C8 the code satisfies: the product and the adjugate identity,
\* and the round trip whenever the second invert returns.
InverseRoundTripWhenReturned ==
    (matrix.d = 1 /\ pc \notin {"start", "panicked"}) =>
        /\ pc = "multiplied" => Matrix4x4_eq(prod[1], Matrix4x4_identity)
        /\ pc = "inverted2" => Matrix4x4_eq(inv2[1], matrix)
        /\ \A r \in 0..3, c \in 0..3 :
             Get4(matrix.n, r, 0) * Matrix4x4_cofactor(matrix.n, c, 0) +
             Get4(matrix.n, r, 1) * Matrix4x4_cofactor(matrix.n, c, 1) +
             Get4(matrix.n, r, 2) * Matrix4x4_cofactor(matrix.n, c, 2) +
             Get4(matrix.n, r, 3) * Matrix4x4_cofactor(matrix.n, c, 3)
                = (IF r = c THEN Det4(matrix.n) ELSE 0)

(***************************************************************************)
(* Claims about shape transforms (checked under SpecShape).                *)
(***************************************************************************)
\* C7 (as claimed): set_transform rejects a matrix whose determinant is
\* approximately 0, so a shape never holds one and no later intersect
\* fails on the inversion.
DegenerateTransformRejected ==
    /\ pc = "set" => Matrix4x4_is_invertible(transform)
    /\ pc # "panicked"

(***************************************************************************)
(* Claims about the refractive-index walk (checked under SpecRefract).     *)
(***************************************************************************)
ObjectsOf(list) == [i \in 1..Len(list) |-> list[i].object]

\* C4: with shape 1 of index 1.5 containing shape 2 of index 2.0 and the
\* sorted intersections 1, 2, 2, 1, prepare_computations on the k-th
\* intersection reports (n1, n2) = (1.0, 1.5), (1.5, 2.0), (2.0, 1.5),
\* (1.5, 1.0) for k = 1, 2, 3, 4.
NestedSpheresIndices ==
    (/\ pc = "prepared"
     /\ refraction[1] = 15 /\ refraction[2] = 20
     /\ ObjectsOf(xs) = <<1, 2, 2, 1>>) =>
        \A k \in 1..4 :
            hitRes = Some(xs[k]) =>
                /\ comp # None
                /\ <<comp[1].n1, comp[1].n2>>
                     = << <<10, 15>>, <<15, 20>>, <<20, 15>>, <<15, 10>> >>[k]

\* C4 witness: prepare_computations has run on the third intersection of
\* the nested pair, where the ray leaves the inner sphere.
NestedSpheresIndicesWitness ==
    /\ pc = "prepared"
    /\ refraction[1] = 15 /\ refraction[2] = 20
    /\ ObjectsOf(xs) = <<1, 2, 2, 1>>
    /\ hitRes = Some(xs[3])
    /\ comp # None
    /\ comp[1].n1 = 20 /\ comp[1].n2 = 15

(***************************************************************************)
(* Claims about the recursion of color_at (checked under SpecTraceFair).   *)
(***************************************************************************)
\* Every nested color_at call got its caller's remaining minus 1, no
\* remaining has underflowed, and at most budget + 1 calls are nested.
RecursionBounded ==
    /\ Len(calls) <= budget + 1
    /\ \A i \in 1..Len(calls) :
        /\ calls[i].remaining >= 0
        /\ calls[i].remaining = budget - (i - 1)
        /\ i < Len(calls) =>
            /\ calls[i].phase \in {"reflecting", "refracting"}
            /\ calls[i].remaining > 0

\* C3: color_at terminates for every world and every remaining >= 0: the
\* outermost call returns, and until then each nested call has remaining - 1
\* of a caller whose remaining is > 0, and the nesting depth never exceeds
\* remaining + 1.
ColorAtTerminates == [](RecursionBounded) /\ <>(pc = "done")

\* C3 witness: facing mirrors drive the recursion to its full depth, where
\* the innermost call has remaining = 0 and is about to be refused a
\* further reflection.
ColorAtTerminatesWitness ==
    /\ budget >= 2
    /\ Len(calls) = budget + 1
    /\ \A i \in 1..(Len(calls) - 1) :
        calls[i].phase = "reflecting" /\ calls[i].material.transparency = 0
    /\ Top.remaining = 0
    /\ Top.phase = "reflect"
    /\ Top.material.reflective > 0

(***************************************************************************)
(* Claims about Camera::render (checked under SpecRender).                 *)
(***************************************************************************)
\* C2: when render returns, every pixel (x, y) with 0 <= x < hsize and
\* 0 <= y < vsize has been written, and holds the rgb of
\* world.color_at(ray_for_pixel(x, y), 5).
RenderWritesEveryPixel ==
    pc = "returned" =>
        \A p \in Pixels(camera) :
            /\ p \in written
            /\ image.buffer[p[1] + p[2] * image.width + 1]
                 = Color_rgb(World_color_at(world, visible[p], RenderDepth))

\* What render does write: exactly the pixels with x < hsize - 1 and
\* y < vsize - 1, each with the rgb of its colour; the others stay 0.
RenderWritesInnerPixels ==
    pc = "returned" =>
        /\ written = RenderCols \X RenderRows
        /\ \A p \in Pixels(camera) :
            image.buffer[p[1] + p[2] * image.width + 1]
              = IF p \in written
                THEN Color_rgb(World_color_at(world, visible[p], RenderDepth))
                ELSE 0

PositiveIn(s) == { s[k].t : k \in { j \in 1..Len(s) : FGt(s[j].t, 0) } }

PositiveTs(w, light, p) == PositiveIn(ExtendFrom(w, ShadowRay(light, p), 1))

\* For some light the nearest intersection with t > 0 is nearer than the light.
SomeLightBlocked(w, p) ==
    \E i \in 1..Len(w.lights) :
        \E t \in PositiveTs(w, w.lights[i], p) :
            t < Vec4_magnitude(Vec4_sub(w.lights[i].position, p))

\* C11: is_shadowed returns, and returns true exactly when for some light
\* the nearest intersection with t > 0 on the ray from the point toward the
\* light is nearer than the light; in the default world it returns true for
\* (10,-10,10) and false for (-20,20,-20).
IsShadowedExact ==
    pc = "done" =>
        /\ shadowed \in {"true", "false"}
        /\ (shadowed = "true") <=> SomeLightBlocked(world, point)
        /\ (world = World_default /\ point = Vec4_point(10, -10, 10)) => shadowed = "true"
        /\ (world = World_default /\ point = Vec4_point(-20, 20, -20)) => shadowed = "false"

\* The same for the points that lie on no light: there is_shadowed returns.
IsShadowedExactOffLights ==
    (pc = "done" /\ \A i \in 1..Len(world.lights) : world.lights[i].position # point) =>
        /\ shadowed \in {"true", "false"}
        /\ (shadowed = "true") <=> SomeLightBlocked(world, point)
        /\ (world = World_default /\ point = Vec4_point(10, -10, 10)) => shadowed = "true"
        /\ (world = World_default /\ point = Vec4_point(-20, 20, -20)) => shadowed = "false"

(***************************************************************************)
(* Claims about degenerate rays (checked under SpecDegenerate).            *)
(***************************************************************************)
\* The ray is parallel to the plane, to the triangle, to the cylinder's axis,
\* or to a face of the cube in whose plane its origin lies.
Degenerate(obj, r) ==
    \/ obj.kind = "Plane" /\ r.direction.y = 0
    \/ obj.kind = "Triangle" /\
         Vec4_dot(Vec4_sub(obj.p2, obj.p1),
                  Vec4_cross(r.direction, Vec4_sub(obj.p3, obj.p1))) = 0
    \/ obj.kind = "Cylinder" /\ r.direction.x = 0 /\ r.direction.z = 0
    \/ obj.kind = "Cube" /\
         \/ r.direction.x = 0 /\ Abs(r.origin.x) = 1
         \/ r.direction.y = 0 /\ Abs(r.origin.y) = 1
         \/ r.direction.z = 0 /\ Abs(r.origin.z) = 1

\* C12: intersect_world returns normally for every shape and every ray, and
\* a degenerate ray yields no intersection with the shape.
DegenerateNeverPanics ==
    /\ pc # "panicked"
    /\ pc = "listed" => (Degenerate(solid, ray[1]) => xs = <<>>)

\* The same for the plane, the cylinder and the triangle only.
DegenerateNeverPanicsButCube ==
    solid.kind \in {"Plane", "Cylinder", "Triangle"} =>
        /\ pc # "panicked"
        /\ pc = "listed" => (Degenerate(solid, ray[1]) => xs = <<>>)

(***************************************************************************)
(* Claims about the mesh loader (checked under SpecLoader).                *)
(***************************************************************************)
\* The f line has a normal index in every token.
CarriesNormals(line) == \A k \in 1..Len(line) : Len(line[k]) = 3

\* The f line references a vertex or a normal that the file does not have,
\* or carries no normal indices.
Malformed(file, line) ==
    \/ ~CarriesNormals(line)
    \/ \E k \in 1..Len(line) :
        \/ line[k][1] \notin 1..file.verts
        \/ line[k][3] \notin 1..file.vert_normals

\* C13: a file with a malformed f line makes the loader fail, and every
\* triangle that is built has the vertices and normals its f line names.
MalformedReferenceAborts ==
    pc # "start" =>
        /\ (\E i \in 1..Len(mesh.faces) : Malformed(mesh, mesh.faces[i])) => pc = "panicked"
        /\ pc = "loaded" =>
            \A i \in 1..Len(mesh.faces) :
                /\ triangles[1][i].p = [k \in 1..3 |-> mesh.faces[i][k][1] - 1]
                /\ triangles[1][i].n = [k \in 1..3 |-> mesh.faces[i][k][3] - 1]

\* What does hold: no triangle is built from a Vec index out of range.
LoaderIndexesInRange ==
    pc = "loaded" =>
        \A i \in 1..Len(triangles[1]) : \A k \in 1..3 :
            /\ triangles[1][i].p[k] < mesh.verts
            /\ triangles[1][i].n[k] < mesh.vert_normals

\* The f lines are well formed: three or more tokens in one notation, every
\* index one the file has.
WellFormed(file, format) ==
    \A i \in 1..Len(file.faces) : \A k \in 1..Len(file.faces[i]) :
        /\ Len(file.faces[i][k]) = Len(Token(format, 1))
        /\ file.faces[i][k][1] \in 1..file.verts
        /\ (format \in {"v//n", "v/t/n"}) =>
            /\ file.faces[i][k][2] = Token(format, 1)[2]
            /\ file.faces[i][k][3] \in 1..file.vert_normals

\* C14: a mesh with a face and no vertex normals loads as flat Triangle
\* children only, a mesh with vertex normals as SmoothTriangle children
\* only, one child per face.
ChildTypePerMesh ==
    pc # "start" =>
        /\ (mesh.vert_normals = 0 /\ Len(mesh.faces) >= 1 /\ WellFormed(mesh, "v")) =>
            /\ pc = "loaded"
            /\ Len(triangles[1]) = Len(mesh.faces)
            /\ \A i \in 1..Len(triangles[1]) : triangles[1][i].kind = "Triangle"
        /\ (mesh.vert_normals > 0 /\ (WellFormed(mesh, "v//n") \/ WellFormed(mesh, "v/t/n"))) =>
            /\ pc = "loaded"
            /\ Len(triangles[1]) = Len(mesh.faces)
            /\ \A i \in 1..Len(triangles[1]) : triangles[1][i].kind = "SmoothTriangle"

\* What does hold: the children of a loaded mesh are SmoothTriangles, one
\* per face.
ChildrenAreSmooth ==
    pc = "loaded" =>
        /\ Len(triangles[1]) = Len(mesh.faces)
        /\ \A i \in 1..Len(triangles[1]) : triangles[1][i].kind = "SmoothTriangle"

(***************************************************************************)
(* Claims about world_normal_at (checked under SpecNormal).                *)
(***************************************************************************)
\* The squared length of a vector over Scale is 1 up to the rounding of
\* its three elements.
UnitTolerance == 4 * Scale

IsUnitDirection(v) ==
    /\ ~Vec4_is_nan(v)
    /\ v.w = 0
    /\ Abs(Vec4_dot(v, v) - Scale * Scale) <= UnitTolerance

\* C15: for every shape variant, every invertible transform and every point
\* of the shape, world_normal_at returns a vector of w = 0 and length 1.
WorldNormalIsUnit ==
    pc # "start" => (pc = "done" /\ IsUnitDirection(wnormal[1]))

\* The same for the sphere, the plane, the cube and the triangle.
WorldNormalIsUnitSimpleShapes ==
    (pc # "start" /\ solid.kind \in {"Sphere", "Plane", "Cube", "Triangle"}) =>
        (pc = "done" /\ IsUnitDirection(wnormal[1]))

(***************************************************************************)
(* Claims about the walk of prepare_computations (checked under SpecWalk). *)
(***************************************************************************)
RECURSIVE ContainerAfter(_, _)
\* The container after the first j intersections of the list: empty at the
\* start; the j-th shape is taken out if it is in it, appended otherwise.
ContainerAfter(list, j) ==
    IF j = 0 THEN <<>>
    ELSE LET before == ContainerAfter(list, j - 1)
             id == list[j].object
         IN IF \E i \in 1..Len(before) : before[i] = id
            THEN SelectSeq(before, LAMBDA e : e # id)
            ELSE before \o <<id>>

\* The refraction index of the container's last element, 1.0 if empty.
IndexOfLast(container) ==
    IF Len(container) = 0 THEN Vacuum ELSE refraction[container[Len(container)]]

\* The first step whose shape id and t are those of the target hit.
StopStep(list, target) ==
    CHOOSE j \in 1..Len(list) :
        /\ list[j].object = target.object /\ list[j].t = target.t
        /\ \A i \in 1..(j - 1) : ~(list[i].object = target.object /\ list[i].t = target.t)

\* C16: prepare_computations returns the n1 and n2 of the first step of the
\* walk whose shape id and t are the target's: n1 is the index of the
\* container's last element before that step's update and n2 the index of
\* its last element after it, 1.0 for an empty container.
WalkStepIndices ==
    pc = "prepared" =>
        /\ comp # None
        /\ comp[1].n1 = IndexOfLast(ContainerAfter(xs, StopStep(xs, hitRes[1]) - 1))
        /\ comp[1].n2 = IndexOfLast(ContainerAfter(xs, StopStep(xs, hitRes[1])))

\* C16 witness: shapes 1 and 2 overlap, the ray enters 1, enters 2, leaves 1
\* and leaves 2; at the third intersection shape 1 is taken out from under
\* shape 2 and both indices are those of shape 2.
WalkStepIndicesWitness ==
    /\ pc = "prepared"
    /\ refraction[1] = 15 /\ refraction[2] = 20
    /\ ObjectsOf(xs) = <<1, 2, 1, 2>>
    /\ xs[3].t # xs[2].t /\ xs[3].t # xs[1].t
    /\ hitRes = Some(xs[3])
    /\ comp # None
    /\ comp[1].n1 = 20 /\ comp[1].n2 = 20

(***************************************************************************)
(* Claims about shade_hit, reflected_color and refracted_color (checked    *)
(* under SpecShade).                                                       *)
(***************************************************************************)
\* The sum of lighting() over all lights, for a shadow flag.
LocalSum(in_shadow) ==
    IF Len(surroundings.lights) = 1 THEN Lighting(surroundings.lights[1], in_shadow)
    ELSE Color_add(Lighting(surroundings.lights[1], in_shadow),
                   Lighting(surroundings.lights[2], in_shadow))

\* C17: shade_hit returns local + reflectance * reflected +
\* (1 - reflectance) * refracted, with reflectance = schlick(), when the
\* material has reflective > 0 and transparency > 0, and local + reflected
\* + refracted in every other case; local is the sum of lighting() over
\* all lights.
ShadeHitBlend ==
    pc = "done" =>
        /\ local_color = Some(LocalSum(flag[1]))
        /\ (hitcomp.material.reflective > 0 /\ hitcomp.material.transparency > 0) =>
              \A k \in 1..3 :
                 shade_result[1][k] =
                    local_color[1][k]
                    + (reflected[1][k] * Comp_schlick(hitcomp)) \div 1000
                    + (refracted[1][k] * (1000 - Comp_schlick(hitcomp))) \div 1000
        /\ ~(hitcomp.material.reflective > 0 /\ hitcomp.material.transparency > 0) =>
              \A k \in 1..3 :
                 shade_result[1][k] = local_color[1][k] + reflected[1][k] + refracted[1][k]

\* C17 witness: a half-reflective, half-transparent material seen at an
\* angle has returned, with a reflected and a refracted colour that are
\* not black and a reflectance strictly between 0 and 1.
ShadeHitBlendWitness ==
    /\ pc = "done"
    /\ hitcomp.material.reflective = 500 /\ hitcomp.material.transparency = 500
    /\ reflected # Some(Black) /\ refracted # Some(Black)
    /\ Comp_schlick(hitcomp) > 0 /\ Comp_schlick(hitcomp) < 1000
    /\ shade_result # Some(Color_add(Color_add(local_color[1], reflected[1]), refracted[1]))

\* C18: for a hit whose material has transparency >= 1.0 shade_hit never
\* calls is_shadowed and lights the hit as unshadowed; for a hit with
\* transparency < 1.0 it calls is_shadowed(over_point) and the flag is what
\* the call returned.
ShadowTestOnlyBelowFullTransparency ==
    pc # "start" =>
        /\ hitcomp.material.transparency >= 1000 =>
              /\ shadow_tests = <<>>
              /\ flag = Some(FALSE)
              /\ local_color # None => local_color = Some(LocalSum(FALSE))
        /\ hitcomp.material.transparency < 1000 =>
              /\ shadow_tests = << hitcomp.over_point >>
              /\ flag = surroundings.is_shadowed
              /\ local_color # None => local_color = Some(LocalSum(surroundings.is_shadowed[1]))

\* C18 witness: a fully transparent material whose over_point is_shadowed
\* would report as shadowed has been lit as unshadowed, with no shadow test.
ShadowTestOnlyBelowFullTransparencyWitness ==
    /\ pc = "done"
    /\ hitcomp.material.transparency = 1000
    /\ surroundings.is_shadowed = Some(TRUE)
    /\ shadow_tests = <<>>
    /\ local_color = Some(LocalSum(FALSE))
    /\ LocalSum(FALSE) # LocalSum(TRUE)

\* C19: reflected_color returns black without casting a ray when reflective
\* is 0 or remaining is 0; otherwise it casts one ray from over_point along
\* reflectv with remaining - 1 and returns its colour times reflective.
ReflectedColorCases ==
    pc = "reflected" =>
        IF hitcomp.material.reflective = 0 \/ shade_remaining = 0
        THEN /\ reflected = Some(Black)
             /\ rays_cast = <<>>
        ELSE /\ rays_cast = << [origin |-> hitcomp.over_point, direction |-> hitcomp.reflectv,
                                remaining |-> shade_remaining - 1] >>
             /\ \A k \in 1..3 :
                  reflected[1][k] =
                     (surroundings.reflect[1][k] * hitcomp.material.reflective) \div 1000

\* C19 witness: a half-reflective material with remaining = 1 has cast its
\* ray with remaining = 0 and returned half of the colour seen.
ReflectedColorCasesWitness ==
    /\ pc = "reflected"
    /\ hitcomp.material.reflective = 500
    /\ shade_remaining = 1
    /\ Len(rays_cast) = 1 /\ rays_cast[1].remaining = 0
    /\ surroundings.reflect = Some(Color_new(1000, 500, 200))
    /\ reflected = Some(Color_new(500, 250, 100))

\* The color_at calls whose ray starts at under_point.
RefractionCasts == SelectSeq(rays_cast, LAMBDA c : c.origin = hitcomp.under_point)

\* The cosine of the angle between eyev and normalv, in thousandths.
CosEyeNormal == (Vec4_dot(hitcomp.eyev, hitcomp.normalv) * 1000) \div (Scale * Scale)

\* sin2_t = (n1 / n2)^2 * (1 - cos_i^2) > 1
TotalInternalReflection ==
    hitcomp.n1 * hitcomp.n1 * (1000000 - CosEyeNormal * CosEyeNormal)
        > hitcomp.n2 * hitcomp.n2 * 1000000

\* C20: refracted_color returns black without casting a ray when
\* transparency is 0, when remaining is 0 or under total internal
\* reflection; otherwise it casts one ray from under_point with
\* remaining - 1 and returns its colour times transparency.
RefractedColorCases ==
    pc = "refracted" =>
        IF \/ hitcomp.material.transparency = 0
           \/ shade_remaining = 0
           \/ TotalInternalReflection
        THEN /\ refracted = Some(Black)
             /\ RefractionCasts = <<>>
        ELSE /\ Len(RefractionCasts) = 1
             /\ RefractionCasts[1].remaining = shade_remaining - 1
             /\ ~Vec4_is_nan(RefractionCasts[1].direction)
             /\ \A k \in 1..3 :
                  refracted[1][k] =
                     (surroundings.refract[1][k] * hitcomp.material.transparency) \div 1000

\* C20 witness: a ray leaving glass (n1 = 1.5, n2 = 1.0) at cos_i = 0.6 has
\* sin2_t = 1.44: black is returned with transparency and remaining both
\* positive and a colour to be seen, and no ray was cast.
RefractedColorCasesWitness ==
    /\ pc = "refracted"
    /\ hitcomp.material.transparency = 1000
    /\ shade_remaining = 1
    /\ hitcomp.n1 = 15 /\ hitcomp.n2 = 10
    /\ TotalInternalReflection
    /\ hitcomp.eyev.y # 0 /\ hitcomp.eyev.z # 0
    /\ surroundings.refract = Some(Color_new(1000, 500, 200))
    /\ refracted = Some(Black)
    /\ RefractionCasts = <<>>

(***************************************************************************)
(* Claims about the normal query of prepare_computations (checked under    *)
(* SpecContext).                                                           *)
(***************************************************************************)
\* C21: prepare_computations queries the normal with the first element of
\* the list it was given, whichever element is the hit; in color_at that
\* list is the full sorted list, entries with t <= 0 included.
NormalContextIsFirst ==
    /\ pc \in {"prepared", "shading"} =>
          /\ given_xs = Some(Some(xs))
          /\ context = Some(xs[1])
          /\ cnormal = Some(SmoothTriangle_local_normal_at(
                                SmoothNormals(hitRes[1].object), xs[1]))
    /\ pc = "shading" => (hitRes = Some(xs[1]) <=> xs[1].t > 0)

\* C21 witness: color_at shades the third entry of its list, the first two
\* lying behind the ray's origin; the normal was interpolated with the u, v
\* of the first entry, which is on another triangle, and differs from the
\* one the hit's own u, v give.
NormalContextIsFirstWitness ==
    /\ pc = "shading"
    /\ Len(xs) >= 3
    /\ xs[1].t < 0 /\ xs[2].t <= 0
    /\ hitRes = Some(xs[3])
    /\ xs[1].object # xs[3].object
    /\ context = Some(xs[1])
    /\ cnormal # Some(SmoothTriangle_local_normal_at(SmoothNormals(xs[3].object), xs[3]))

\* C30: prepare_computations fails whenever its list is None or empty, for
\* every hit, and returns a Comp only for a list of at least one element.
PrepareNeedsFirstElement ==
    pc \in {"prepared", "shading", "panicked"} =>
        /\ pc = "panicked" <=> (given_xs = Some(None) \/ given_xs = Some(Some(<<>>)))
        /\ pc = "panicked" <=> comp = None
        /\ comp # None => Len(given_xs[1][1]) >= 1

\* C30 witness: a call with Some(&vec![]) for a hit in front of the ray has
\* panicked.
PrepareNeedsFirstElementWitness ==
    /\ pc = "panicked"
    /\ given_xs = Some(Some(<<>>))
    /\ hitRes # None /\ hitRes[1].t > 0
    /\ comp = None

(***************************************************************************)
(* Claims about Model::local_normal_at and Cylinder::local_normal_at       *)
(* (checked under SpecNormal).                                             *)
(***************************************************************************)
\* C22: for a point on a child triangle of a Model, local_normal_at finds
\* the child with its probe ray and returns the child's normal, so that
\* world_normal_at of the Model is that of the child.
ModelNormalIsChildNormal ==
    (pc # "start" /\ solid.kind = "Model") =>
        /\ pc = "done"
        /\ wnormal = World_normal_at([solid EXCEPT !.kind = "Triangle"], transform, point)

\* What holds instead: the probe ray hits no child, local_normal_at returns
\* the zero vector for every point and the normalize makes it NaN.
ModelNormalIsNaN ==
    (pc # "start" /\ solid.kind = "Model") =>
        wnormal = Some(Vec4_raw(NaN, NaN, NaN, NaN))

\* The local point of the world_normal_at call of the state.
LocalPointNow == Local_point_with(Matrix4x4_invert(transform)[1], point)

\* The local point lies on the bottom cap: x^2 + z^2 < 1 and y at minimum.
OnBottomCap ==
    /\ LocalPointNow.x * LocalPointNow.x + LocalPointNow.z * LocalPointNow.z
          < LocalPointNow.w * LocalPointNow.w
    /\ LocalPointNow.y = solid.minimum * LocalPointNow.w

\* C23: Cylinder::local_normal_at never returns (0, -1, 0); a point of the
\* bottom cap of a cylinder with minimum < maximum - 1e-5 gets the wall
\* normal (x, 0, z).
CylinderNeverBottomNormal ==
    (pc = "done" /\ solid.kind = "Cylinder") =>
        /\ lnormal # Some(Vec4_vector(0, -1, 0))
        /\ (OnBottomCap /\ solid.minimum < solid.maximum) =>
              lnormal = Some(Vec4_vector(LocalPointNow.x, 0, LocalPointNow.z))

\* C23 witness: the point (0.5, minimum, 0) of the bottom cap of a closed
\* cylinder got the wall normal along x.
CylinderNeverBottomNormalWitness ==
    /\ pc = "done"
    /\ solid.kind = "Cylinder" /\ solid.closed
    /\ OnBottomCap
    /\ LocalPointNow.x > 0
    /\ lnormal = Some(Vec4_vector(LocalPointNow.x, 0, 0))

(***************************************************************************)
(* Claims about Cylinder::local_intersect (checked under SpecDegenerate).  *)
(***************************************************************************)
\* x^2 + z^2 - 1 and y along the ray of the state at distance t, t in units
\* of 1/Scale; the first in units of 1/Scale^2, the second of 1/Scale.
WallGap(t) ==
    (ray[1].origin.x * Scale + t * ray[1].direction.x)
        * (ray[1].origin.x * Scale + t * ray[1].direction.x)
    + (ray[1].origin.z * Scale + t * ray[1].direction.z)
        * (ray[1].origin.z * Scale + t * ray[1].direction.z)
    - Scale * Scale

HeightAt(t) == ray[1].origin.y * Scale + t * ray[1].direction.y

\* The rounding of a root moves x^2 + z^2 by at most this much.
WallTolerance == 6 * Scale

IsWallRoot(t) ==
    /\ Abs(WallGap(t)) <= WallTolerance
    /\ solid.minimum * Scale < HeightAt(t) /\ HeightAt(t) < solid.maximum * Scale

IsCapHit(t) ==
    /\ solid.closed
    /\ ray[1].direction.y # 0
    /\ HeightAt(t) \in {solid.minimum * Scale, solid.maximum * Scale}
    /\ WallGap(t) <= 0

\* The ray crosses or touches the wall between t and t + 1.
CrossesWall(t) ==
    \/ WallGap(t) <= 0 /\ WallGap(t + 1) >= 0
    \/ WallGap(t) >= 0 /\ WallGap(t + 1) <= 0

AxisParallel ==
    ray[1].direction.x * ray[1].direction.x + ray[1].direction.z * ray[1].direction.z = 0

\* The distances at which the ray is strictly between the two cap planes,
\* three units of rounding away from them.
InsideRange ==
    IF ray[1].direction.y = 0 THEN {}
    ELSE { t \in ((solid.minimum - ray[1].origin.y) * Scale + 3)
                  ..((solid.maximum - ray[1].origin.y) * Scale - 3) : TRUE }

\* C24: Cylinder::local_intersect returns nothing when a = dx^2 + dz^2 is
\* approximately 0, closed or not; otherwise what it returns are the wall
\* roots whose y lies strictly between minimum and maximum and, for a closed
\* cylinder and dy not approximately 0, the cap-plane hits within the unit
\* disk: each entry is one of these, and each of these is an entry.
CylinderIntersections ==
    (pc # "start" /\ solid.kind = "Cylinder") =>
        /\ pc = "listed"
        /\ AxisParallel => xs = <<>>
        /\ ~AxisParallel =>
            /\ \A i \in 1..Len(xs) : IsWallRoot(xs[i].t) \/ IsCapHit(xs[i].t)
            /\ \A t \in InsideRange :
                  (CrossesWall(t) /\ t + 1 \in InsideRange) =>
                      \E i \in 1..Len(xs) : Abs(xs[i].t - t) <= 2
            /\ (solid.closed /\ ray[1].direction.y # 0) =>
                  \A y \in {solid.minimum, solid.maximum} :
                      WallGap((y - ray[1].origin.y) * Scale) <= 0 =>
                          \E i \in 1..Len(xs) : xs[i].t = (y - ray[1].origin.y) * Scale

\* C24 witness: a ray along the axis of a closed cylinder, from below it
\* through both caps, got no intersection.
CylinderIntersectionsWitness ==
    /\ pc = "listed"
    /\ solid.kind = "Cylinder" /\ solid.closed
    /\ ray[1].direction = Vec4_vector(0, 1, 0)
    /\ ray[1].origin = Vec4_point(0, -1, 0)
    /\ xs = <<>>

(***************************************************************************)
(* Claims about Material::lighting (checked under SpecLighting).           *)
(***************************************************************************)
\* effective_color * ambient, channel k, from the arguments
AmbientChannel(k) ==
    (((lighting_args.material.color[k] * lighting_args.light.intensity[k]) \div 1000)
        * lighting_args.material.ambient) \div 1000

\* C25: lighting returns exactly the ambient term when in_shadow is true;
\* otherwise ambient + diffuse + specular, where diffuse and specular are
\* both zero if light_dir . normal < 0 and specular is zero if
\* reflect . eye <= 0; the ambient term is present in every case.
LightingTermsAsClaimed ==
    pc = "done" =>
        /\ \A k \in 1..3 : lighting_out[1].ambient[k] = AmbientChannel(k)
        /\ lighting_args.in_shadow => lighting_out[1].result = lighting_out[1].ambient
        /\ ~lighting_args.in_shadow =>
            /\ \A k \in 1..3 :
                 lighting_out[1].result[k] =
                    lighting_out[1].ambient[k] + lighting_out[1].diffuse[k]
                        + lighting_out[1].specular[k]
            /\ Light_dot_normal(lighting_args) < 0 =>
                 /\ lighting_out[1].diffuse = Black
                 /\ lighting_out[1].specular = Black
            /\ Reflect_dot_eye(lighting_args) <= 0 => lighting_out[1].specular = Black
            /\ (Light_dot_normal(lighting_args) > 0
                  /\ lighting_args.material.diffuse > 0) =>
                 lighting_out[1].diffuse # Black
        /\ \A k \in 1..3 : lighting_out[1].result[k] >= AmbientChannel(k)

\* C25 witness: a shadowed call whose light faces the surface, with the
\* eye in the mirror direction, has returned the ambient term alone, which
\* is not black, where the unshadowed call adds diffuse and specular.
LightingTermsAsClaimedWitness ==
    /\ pc = "done"
    /\ lighting_args.in_shadow
    /\ Light_dot_normal(lighting_args) > 0
    /\ Reflect_dot_eye(lighting_args) > 900
    /\ lighting_args.material.specular > 0
    /\ lighting_out[1].result = lighting_out[1].ambient
    /\ lighting_out[1].result # Black
    /\ Material_lighting_terms_unshadowed(lighting_args).result # lighting_out[1].result

(***************************************************************************)
(* Claims about pattern sampling (checked under SpecPattern).              *)
(***************************************************************************)
\* the inverse of the shape's transform in the call under way
PatternInverse == Matrix4x4_invert(pattern_args.shape_transform)[1]

\* a sub-pattern sampled as its own color_at_object would sample it
SubSampledFromShape(sub) ==
    Simple_color_at(sub, Pattern_point(sub, PatternInverse, pattern_args.world_point))

\* a sub-pattern sampled with its own transform applied to the blend's pattern point
SubSampledFromBlend(sub) ==
    Simple_color_at(sub, Matrix4x4_mul_vec(sub.transform.n,
        Pattern_point(pattern_args.pattern, PatternInverse, pattern_args.world_point)))

\* C26: every pattern is sampled through two nested transforms.  A pattern
\* that is no blend returns its rule's value at
\* pattern.transform * shape.transform.invert() * p; a blend returns the mean
\* of its two sub-patterns, each sampled with its own transform applied
\* (after the shape's inverse, or after the blend's pattern point).
PatternSampledThroughOwnTransform ==
    pc = "done" =>
        LET pattern == pattern_args.pattern
        IN IF pattern.kind = "blended"
           THEN \/ sampled = Some(Color_half(Color_add(SubSampledFromShape(pattern.first_pattern),
                                                       SubSampledFromShape(pattern.second_pattern))))
                \/ sampled = Some(Color_half(Color_add(SubSampledFromBlend(pattern.first_pattern),
                                                       SubSampledFromBlend(pattern.second_pattern))))
           ELSE sampled = Some(Simple_color_at(pattern,
                    Pattern_point(pattern, PatternInverse, pattern_args.world_point)))

\* What holds instead: the claimed value is returned by every pattern that is
\* no blend, and by every blend whose transform and whose sub-patterns'
\* transforms are the identity.
PatternSampledWhenSubTransformsIdentity ==
    (/\ pc = "done"
     /\ pattern_args.pattern.kind = "blended" =>
            /\ pattern_args.pattern.transform = Matrix4x4_identity
            /\ pattern_args.pattern.first_pattern.transform = Matrix4x4_identity
            /\ pattern_args.pattern.second_pattern.transform = Matrix4x4_identity)
    => PatternSampledThroughOwnTransform

\* A blend returns the mean of its sub-patterns' rules at the blend's own
\* pattern point: the sub-patterns' transforms play no part.
BlendIgnoresSubTransforms ==
    (pc = "done" /\ pattern_args.pattern.kind = "blended") =>
        LET pattern == pattern_args.pattern
            at == Pattern_point(pattern, PatternInverse, pattern_args.world_point)
        IN sampled = Some(Color_half(Color_add(Simple_color_at(pattern.first_pattern, at),
                                               Simple_color_at(pattern.second_pattern, at))))

(***************************************************************************)
(* Claims about a Model in the world (checked under SpecScene).            *)
(***************************************************************************)
\* the ids of the Model's child triangles
ChildIds == 1..Len(scene.triangles)

\* the normal of the faces of MeshFaces, over Scale
FaceNormal == Vec4_vector(0, 0, -Scale)

ContainerDistinct ==
    \A a, b \in 1..Len(walk.stack) : a # b => walk.stack[a] # walk.stack[b]

\* Every shape id occurs an even number of times in the list.
EvenList ==
    \A id \in 1..NumShapes : Cardinality({k \in 1..Len(xs) : xs[k].object = id}) % 2 = 0

\* The loop has gone over the whole list.
WalkedWhole == walk.i > Len(xs)

\* The state part of C28: no id twice in the container, and an empty
\* container and n2 = 1.0 after the whole of an even list.
WalkState ==
    /\ ContainerDistinct
    /\ (WalkedWhole /\ EvenList) => (walk.stack = <<>> /\ walk.n2 = Vacuum)

StepsAgreeWithWalk ==
    pc \in {"prepared", "panicked"} =>
        comp = Prepare_computations(hitRes[1], Some(xs), refraction)

(***************************************************************************)
(* Claims about shade_hit in a world of several lights (checked under      *)
(* SpecLights).                                                            *)
(***************************************************************************)
\* The shaded point is blocked from the k-th light: the ray toward it hits
\* something nearer than the light.
BlockedFrom(k) ==
    \E j \in 1..Len(lit_args.lights[k].shadow_xs) :
        /\ lit_args.lights[k].shadow_xs[j].t > 0
        /\ lit_args.lights[k].shadow_xs[j].t < Light_distance(lit_args.lights[k], lit_args.point)

\* The ambient term of the k-th light: color * intensity * ambient
AmbientOfLight(k) ==
    [c \in 1..3 |->
        (((lit_args.material.color[c] * lit_args.lights[k].intensity[c]) \div 1000)
            * lit_args.material.ambient) \div 1000]

\* What the k-th light gives to a point it lights
FullOfLight(k) == Material_lighting_terms_unshadowed(Lighting_call(lit_args, k, FALSE)).result

\* Every light's lighting is its ambient term alone.
AllLightsAmbient ==
    /\ \A k \in 1..Len(lit_args.lights) : lit_out[1].parts[k] = AmbientOfLight(k)
    /\ \A c \in 1..3 :
        lit_out[1].color[c] =
            (IF Len(lit_args.lights) = 2 THEN AmbientOfLight(2)[c] ELSE 0) + AmbientOfLight(1)[c]

\* C29 as stated: shade_hit uses one shadow flag for all lights; if the
\* shaded point is blocked from any single light, the lighting of every
\* light, unblocked ones included, is its ambient term alone.
AnyBlockedLightDimsAll ==
    (pc = "lit" /\ \E k \in 1..Len(lit_args.lights) : BlockedFrom(k)) => AllLightsAmbient

\* C29 for a hit whose material has transparency < 1.0: one shadow flag
\* serves all lights; it is true exactly if the point is blocked from some
\* light, and then the lighting of every light, unblocked ones included, is
\* its ambient term alone; if the point is blocked from no light every
\* light gives its full lighting.
AnyBlockedLightDimsAllBelowFullTransparency ==
    (pc = "lit" /\ lit_args.material.transparency < 1000) =>
        /\ lit_out[1].shadowed = (\E k \in 1..Len(lit_args.lights) : BlockedFrom(k))
        /\ (\E k \in 1..Len(lit_args.lights) : BlockedFrom(k)) => AllLightsAmbient
        /\ ~(\E k \in 1..Len(lit_args.lights) : BlockedFrom(k)) =>
              \A k \in 1..Len(lit_args.lights) : lit_out[1].parts[k] = FullOfLight(k)

\* C29 happens: the point sees the first light and is blocked from the
\* second; the first light gives its ambient term, less than it gives to a
\* point it lights.
AnyBlockedLightDimsAllWitness ==
    /\ pc = "lit"
    /\ lit_args.material.transparency < 1000
    /\ Len(lit_args.lights) = 2
    /\ ~BlockedFrom(1) /\ BlockedFrom(2)
    /\ lit_out[1].shadowed
    /\ lit_out[1].parts[1] = AmbientOfLight(1)
    /\ lit_out[1].parts[1] # FullOfLight(1)

\* For a material of transparency 1.0 the flag is false whatever blocks the
\* lights, and every light gives its full lighting.
FullyTransparentIsLit ==
    (pc = "lit" /\ lit_args.material.transparency >= 1000) =>
        /\ ~lit_out[1].shadowed
        /\ \A k \in 1..Len(lit_args.lights) : lit_out[1].parts[k] = FullOfLight(k)

====
